---- MODULE Spec2Model ----
(***************************************************************************)
(* A model of xdir, the directory-to-XML converter.                        *)
(*                                                                         *)
(* Strings are sequences of one-character strings, so that splitting,      *)
(* trimming, lower-casing, prefix tests and substring search are computed  *)
(* the way the Go standard library computes them.                          *)
(***************************************************************************)
EXTENDS Integers, Sequences, FiniteSets, TLC

VARIABLES
    gConfig,      \* path gates: the Config the gates are called with
    gPath,        \* path gates: the path of the last call
    gRes,         \* path gates: the results of the last call
    tcCount,      \* TokenCounter.count
    tcSum,        \* the sum of the values CountTokens has returned so far
    tcCalls,      \* the number of CountTokens calls so far
    tcLast,       \* the last TokenCounter call: method, argument, result
    xStage,       \* serializers: "idle", "written", "parsed"
    xWriter,      \* serializers: which one wrote xDoc
    xContent,     \* serializers: the record's content
    xDoc,         \* serializers: the bytes written for the record
    xParsed,      \* serializers: what a parser reads back from xDoc
    daTargetDir,  \* DependencyAnalyzer.targetDir
    fileMap,      \* DependencyAnalyzer.fileMap: registered path -> FileContent
    daErr,        \* what the last AnalyzeDependencies returned: "none", "nil", "error"
    daRuns,       \* the number of AnalyzeDependencies calls so far
    mode,         \* pipeline: "stream" (processor.go), "buffered", "sp" (StreamProcessor)
    tree,         \* pipeline: which directory tree lies under the root
    cfg,          \* pipeline: the Config of the run
    absTargetDir, \* pipeline: the resolved root of processFiles
    pc,           \* pipeline: "start", "walk", "serialize", "write", "done"
    todo,         \* pipeline: the paths filepath.Walk has still to visit, in order
    stats,        \* pipeline: Stats
    out,          \* pipeline: what the destination writer has received
    xmlBuffer,    \* pipeline: the buffer the buffered pipeline serializes into
    result,       \* pipeline: "none", "nil", or the error the entry point returned
    last,         \* pipeline: the entry the walk function was last called with, and how it left
    faults,       \* pipeline: the number of I/O failures met so far
    runNo,        \* pipeline: 1 in the first run, 2 in a second run over the same tree
    firstOut,     \* pipeline: what the destination received in the first run
    mStage,       \* main: "idle", "start", "opened", "closed", "renamed", "exit1"
    mOutputFile,  \* main: config.outputFile
    mOpen,        \* main: the output file is open for writing
    mPath,        \* main: the path the output file is found at, <<>> before it exists
    hMode,        \* handles: whose walk function runs: "stream", "buffered", "sp"
    hTodo,        \* handles: the files the walk has still to hand to the function
    hStage,       \* handles: "call" between two calls, "opened", or the stage reached
    hOpen,        \* handles: the files that are open
    hLast         \* handles: how the last call ended: "none", "open", a failing stage, "nil"

gateVars == <<gConfig, gPath, gRes>>
tokVars == <<tcCount, tcSum, tcCalls, tcLast>>
xmlVars == <<xStage, xWriter, xContent, xDoc, xParsed>>
depVars == <<daTargetDir, fileMap, daErr, daRuns>>
runVars == <<mode, tree, cfg, absTargetDir, pc, todo, stats, out, xmlBuffer,
             result, last, faults, runNo, firstOut>>
mainVars == <<mStage, mOutputFile, mOpen, mPath>>
handleVars == <<hMode, hTodo, hStage, hOpen, hLast>>
vars == <<gateVars, tokVars, xmlVars, depVars, runVars, mainVars, handleVars>>

\* what each component leaves alone
notGateVars == <<tokVars, xmlVars, depVars, runVars, mainVars, handleVars>>
notTokVars == <<gateVars, xmlVars, depVars, runVars, mainVars, handleVars>>
notXmlVars == <<gateVars, tokVars, depVars, runVars, mainVars, handleVars>>
notDepVars == <<gateVars, tokVars, xmlVars, runVars, mainVars, handleVars>>
notRunVars == <<gateVars, xmlVars, mainVars, handleVars>>
notMainVars == <<gateVars, tokVars, xmlVars, depVars, runVars, handleVars>>
notHandleVars == <<gateVars, tokVars, xmlVars, depVars, runVars, mainVars>>

---------------------------------------------------------------------------
(* Strings                                                                 *)

SLASH == "/"
DOT == "."

RECURSIVE Concat(_)
\* the concatenation of a sequence of strings
Concat(ss) ==
    IF ss = <<>> THEN <<>> ELSE Head(ss) \o Concat(Tail(ss))

\* strings.HasPrefix
HasPrefix(s, p) ==
    /\ Len(p) <= Len(s)
    /\ SubSeq(s, 1, Len(p)) = p

\* strings.HasSuffix
HasSuffix(s, p) ==
    /\ Len(p) <= Len(s)
    /\ SubSeq(s, Len(s) - Len(p) + 1, Len(s)) = p

\* strings.Contains
Contains(s, sub) ==
    \E i \in 1..(Len(s) - Len(sub) + 1) : SubSeq(s, i, i + Len(sub) - 1) = sub

\* strings.Index, 1-based; 0 when sub does not occur
Index(s, sub) ==
    IF Contains(s, sub)
    THEN CHOOSE i \in 1..(Len(s) - Len(sub) + 1) :
            /\ SubSeq(s, i, i + Len(sub) - 1) = sub
            /\ \A j \in 1..(i - 1) : SubSeq(s, j, j + Len(sub) - 1) # sub
    ELSE 0

UpperChars == <<"A","B","C","D","E","F","G","H","I","J","K","L","M",
                "N","O","P","Q","R","S","T","U","V","W","X","Y","Z">>
LowerChars == <<"a","b","c","d","e","f","g","h","i","j","k","l","m",
                "n","o","p","q","r","s","t","u","v","w","x","y","z">>

LowerChar(c) ==
    IF \E i \in 1..Len(UpperChars) : UpperChars[i] = c
    THEN LowerChars[CHOOSE i \in 1..Len(UpperChars) : UpperChars[i] = c]
    ELSE c

\* strings.ToLower
ToLower(s) == [i \in 1..Len(s) |-> LowerChar(s[i])]

\* unicode.IsSpace, on the characters of the model's alphabets
IsSpace(c) == c \in {" ", "\t", "\n", "\r"}

RECURSIVE TrimLeft(_)
TrimLeft(s) ==
    IF s # <<>> /\ IsSpace(Head(s)) THEN TrimLeft(Tail(s)) ELSE s

RECURSIVE TrimRight(_)
TrimRight(s) ==
    IF s # <<>> /\ IsSpace(s[Len(s)]) THEN TrimRight(SubSeq(s, 1, Len(s) - 1)) ELSE s

\* strings.TrimSpace
TrimSpace(s) == TrimRight(TrimLeft(s))

RECURSIVE SplitAcc(_, _, _)
SplitAcc(s, sep, cur) ==
    IF s = <<>> THEN <<cur>>
    ELSE IF Head(s) = sep THEN <<cur>> \o SplitAcc(Tail(s), sep, <<>>)
    ELSE SplitAcc(Tail(s), sep, Append(cur, Head(s)))

\* strings.Split(s, sep) for a one-character separator: empty pieces are kept
Split(s, sep) == SplitAcc(s, sep, <<>>)

---------------------------------------------------------------------------
(* path/filepath, with Separator = '/'                                     *)

\* filepath.ToSlash: replaces Separator by '/', which changes nothing here
ToSlash(path) == [i \in 1..Len(path) |-> IF path[i] = SLASH THEN "/" ELSE path[i]]

RECURSIVE StripTrailingSlashes(_)
StripTrailingSlashes(path) ==
    IF path # <<>> /\ path[Len(path)] = SLASH
    THEN StripTrailingSlashes(SubSeq(path, 1, Len(path) - 1))
    ELSE path

\* filepath.Base
Base(path) ==
    IF path = <<>> THEN <<DOT>>
    ELSE LET p == StripTrailingSlashes(path)
             parts == Split(p, SLASH)
         IN IF p = <<>> THEN <<SLASH>> ELSE parts[Len(parts)]

RECURSIVE ExtFrom(_, _)
ExtFrom(path, i) ==
    IF i < 1 \/ path[i] = SLASH THEN <<>>
    ELSE IF path[i] = DOT THEN SubSeq(path, i, Len(path))
    ELSE ExtFrom(path, i - 1)

\* filepath.Ext: the suffix from the last dot of the last element
Ext(path) == ExtFrom(path, Len(path))

RECURSIVE CleanSegs(_, _, _)
\* the elements of a cleaned path: "" and "." dropped, ".." removes the
\* element before it (and is dropped at the root of a rooted path)
CleanSegs(segs, acc, rooted) ==
    IF segs = <<>> THEN acc
    ELSE LET s == Head(segs) IN
         IF s = <<>> \/ s = <<DOT>> THEN CleanSegs(Tail(segs), acc, rooted)
         ELSE IF s = <<DOT, DOT>>
              THEN IF acc # <<>> /\ acc[Len(acc)] # <<DOT, DOT>>
                   THEN CleanSegs(Tail(segs), SubSeq(acc, 1, Len(acc) - 1), rooted)
                   ELSE IF rooted THEN CleanSegs(Tail(segs), acc, rooted)
                        ELSE CleanSegs(Tail(segs), Append(acc, s), rooted)
              ELSE CleanSegs(Tail(segs), Append(acc, s), rooted)

RECURSIVE JoinSegs(_)
JoinSegs(segs) ==
    IF segs = <<>> THEN <<>>
    ELSE IF Len(segs) = 1 THEN Head(segs)
    ELSE Head(segs) \o <<SLASH>> \o JoinSegs(Tail(segs))

\* filepath.Clean
Clean(path) ==
    LET rooted == path # <<>> /\ Head(path) = SLASH
        body == JoinSegs(CleanSegs(Split(path, SLASH), <<>>, rooted))
    IN IF rooted THEN <<SLASH>> \o body
       ELSE IF body = <<>> THEN <<DOT>> ELSE body

\* filepath.Join of two elements: empty elements are ignored, the rest is
\* joined by Separator and cleaned
Join(a, b) ==
    IF a = <<>> /\ b = <<>> THEN <<>>
    ELSE IF a = <<>> THEN Clean(b)
    ELSE IF b = <<>> THEN Clean(a)
    ELSE Clean(a \o <<SLASH>> \o b)

\* filepath.Dir: the path up to its last Separator, cleaned
Dir(path) ==
    LET seps == { i \in 1..Len(path) : path[i] = SLASH }
        cut == IF seps = {} THEN 0 ELSE CHOOSE i \in seps : \A j \in seps : j <= i
    IN Clean(SubSeq(path, 1, cut))

\* strings.TrimSuffix
TrimSuffix(s, suffix) ==
    IF HasSuffix(s, suffix) THEN SubSeq(s, 1, Len(s) - Len(suffix)) ELSE s

\* filepath.Rel(base, target) for two cleaned absolute paths with target at
\* or below base, which is the only way the walk calls it
Rel(base, target) ==
    IF target = base THEN <<DOT>>
    ELSE IF base = <<SLASH>> THEN Tail(target)
    ELSE SubSeq(target, Len(base) + 2, Len(target))

RECURSIVE MatchGlob(_, _)
\* filepath.Match for patterns made of literals, '*' and '?' (the model's
\* patterns hold no '[' and no '\', so the pattern is never malformed):
\* '*' is any run of non-Separator characters, '?' one such character
MatchGlob(pat, name) ==
    IF pat = <<>> THEN name = <<>>
    ELSE IF Head(pat) = "*"
         THEN \/ MatchGlob(Tail(pat), name)
              \/ /\ name # <<>>
                 /\ Head(name) # SLASH
                 /\ MatchGlob(pat, Tail(name))
    ELSE /\ name # <<>>
         /\ \/ Head(pat) = "?" /\ Head(name) # SLASH
            \/ Head(pat) # "?" /\ Head(pat) = Head(name)
         /\ MatchGlob(Tail(pat), Tail(name))

---------------------------------------------------------------------------
(* The path gates                                                          *)

NODE_MODULES == <<"n","o","d","e","_","m","o","d","u","l","e","s">>
DOT_GIT == <<".","g","i","t">>
DOT_ENV == <<".","e","n","v">>
DS_STORE == <<".","D","S","_","S","t","o","r","e">>

\* var ExcludedPaths
ExcludedPaths == <<NODE_MODULES, DOT_GIT, DOT_ENV, DS_STORE>>

\* isExcludedPath with the hidden-name test applied to every segment
isExcludedPath_AnySegmentHidden(path, config) ==
    IF config.unsafeMode THEN FALSE
    ELSE LET parts == Split(ToSlash(path), SLASH)
         IN \/ \E i \in 1..Len(parts) :
                   \E k \in 1..Len(ExcludedPaths) : parts[i] = ExcludedPaths[k]
            \/ \E i \in 1..Len(parts) :
                   /\ HasPrefix(parts[i], <<DOT>>)
                   /\ parts[i] # <<DOT>>
                   /\ parts[i] # <<DOT, DOT>>

\* isExcludedPath(path, config): false in unsafe mode; otherwise true when a
\* segment equals an exclusion name or the base name is hidden
isExcludedPath(path, config) ==
    IF config.unsafeMode THEN FALSE
    ELSE LET parts == Split(ToSlash(path), SLASH)
             base == Base(path)
         IN \/ \E i \in 1..Len(parts) :
                   \E k \in 1..Len(ExcludedPaths) : parts[i] = ExcludedPaths[k]
            \/ /\ HasPrefix(base, <<DOT>>)
               /\ base # <<DOT>>
               /\ base # <<DOT, DOT>>

\* the excludedPaths of StreamProcessor's isExcluded
streamExcludedPaths == <<NODE_MODULES, DOT_GIT, DOT_ENV, DS_STORE>>

\* isExcluded(path): StreamProcessor's gate, a substring test on the whole
\* path; it takes no Config
isExcluded(path) ==
    \E k \in 1..Len(streamExcludedPaths) : Contains(path, streamExcludedPaths[k])

\* cleanPattern: trimmed, lower-cased, with a leading dot
cleanPattern(pattern) ==
    LET p == ToLower(TrimSpace(pattern))
    IN IF HasPrefix(p, <<DOT>>) THEN p ELSE <<DOT>> \o p

\* the defaultPatterns of isFileMatch
defaultPatterns ==
  <<<<".","c">>,
     <<".","c","p","p">>,
     <<".","c","s","s">>,
     <<".","g","o">>,
     <<".","h">>,
     <<".","h","p","p">>,
     <<".","h","t","m","l">>,
     <<".","j","a","v","a">>,
     <<".","j","s">>,
     <<".","j","s","o","n">>,
     <<".","j","s","x">>,
     <<".","m","d">>,
     <<".","m","d","x">>,
     <<".","p","h","p">>,
     <<".","p","y">>,
     <<".","r","b">>,
     <<".","r","s">>,
     <<".","s","q","l">>,
     <<".","s","w","i","f","t">>,
     <<".","t","s">>,
     <<".","t","s","x">>,
     <<".","t","x","t">>,
     <<".","x","m","l">>,
     <<".","y","a","m","l">>,
     <<".","y","m","l">>>>

\* isFileMatch with a miss against filePatterns falling through to the globs
\* and the default extensions
isFileMatch_FallsThrough(path, config) ==
    LET ext == cleanPattern(Ext(path)) IN
    \/ \E i \in 1..Len(config.filePatterns) :
            cleanPattern(config.filePatterns[i]) = ext
    \/ \E i \in 1..Len(config.globPatterns) :
            MatchGlob(config.globPatterns[i], Base(path))
    \/ /\ Len(config.globPatterns) = 0
       /\ \E i \in 1..Len(defaultPatterns) :
            cleanPattern(defaultPatterns[i]) = ext

\* isFileMatch with a miss against the globs falling through to the default
\* extensions
isFileMatch_GlobMissUsesDefaults(path, config) ==
    LET ext == cleanPattern(Ext(path)) IN
    IF Len(config.filePatterns) > 0
    THEN \E i \in 1..Len(config.filePatterns) :
            cleanPattern(config.filePatterns[i]) = ext
    ELSE \/ \E i \in 1..Len(config.globPatterns) :
                MatchGlob(config.globPatterns[i], Base(path))
         \/ \E i \in 1..Len(defaultPatterns) :
                cleanPattern(defaultPatterns[i]) = ext

\* isFileMatch(path, config): the explicit extensions if any are configured,
\* else the globs if any are configured, else the default extensions
isFileMatch(path, config) ==
    LET ext == cleanPattern(Ext(path)) IN
    IF Len(config.filePatterns) > 0
    THEN \E i \in 1..Len(config.filePatterns) :
            cleanPattern(config.filePatterns[i]) = ext
    ELSE IF Len(config.globPatterns) > 0
    THEN \E i \in 1..Len(config.globPatterns) :
            MatchGlob(config.globPatterns[i], Base(path))
    ELSE \E i \in 1..Len(defaultPatterns) :
            cleanPattern(defaultPatterns[i]) = ext

---------------------------------------------------------------------------
(* The gates as pure functions: every call draws its inputs               *)

\* the longest path the gates are called with, in segments
MaxSegs == 2
\* the longest filePatterns list the gates are called with
MaxPatterns == 2

GateSegs ==
    { NODE_MODULES, DOT_GIT, DOT_ENV, DS_STORE,
      <<"s","r","c">>, <<".","h","i","d">>, <<"a",".","g","o">>, <<"B",".","T","X","T">>, <<"x",".","e","n","v">>, <<"n","o","e","x","t">> }

RECURSIVE SeqsUpTo(_, _)
\* the sequences over S of length at most n
SeqsUpTo(S, n) ==
    IF n = 0 THEN { <<>> }
    ELSE LET shorter == SeqsUpTo(S, n - 1)
         IN shorter \cup { Append(s, x) : s \in shorter, x \in S }

\* rooted paths of one to MaxSegs segments
GatePaths ==
    { <<SLASH>> \o JoinSegs(segs) : segs \in SeqsUpTo(GateSegs, MaxSegs) \ { <<>> } }

GateFilePatterns ==
    SeqsUpTo({ <<"g","o">>, <<" ","M","D"," ">>, <<".","T","x","t">> }, MaxPatterns)

GateGlobPatterns ==
    { <<>>, << <<"*",".","g","o">> >>, << <<"?",".","T","X","T">>, <<"x","*">> >> }

GateConfig(fp, gp, unsafe) ==
    [ maxFileSize |-> 0, filePatterns |-> fp, globPatterns |-> gp,
      targetDir |-> <<SLASH>>, unsafeMode |-> unsafe ]

NoCall == [ fn |-> "none", val |-> FALSE ]

\* no gate has been called
GateIdle ==
    /\ gConfig = GateConfig(<<>>, <<>>, FALSE)
    /\ gPath = <<>>
    /\ gRes = NoCall

\* a call of isExcludedPath(path, config)
CallIsExcludedPath ==
    /\ gRes.fn = "none"
    /\ \E p \in GatePaths, u \in BOOLEAN :
        /\ gConfig' = GateConfig(<<>>, <<>>, u)
        /\ gPath' = p
        /\ gRes' = [ fn |-> "isExcludedPath", val |-> isExcludedPath(p, gConfig') ]
    /\ UNCHANGED notGateVars

\* a call of StreamProcessor's isExcluded(path), under whatever Config the
\* program was started with: the function does not receive it
CallIsExcluded ==
    /\ gRes.fn = "none"
    /\ \E p \in GatePaths, u \in BOOLEAN :
        /\ gConfig' = GateConfig(<<>>, <<>>, u)
        /\ gPath' = p
        /\ gRes' = [ fn |-> "isExcluded", val |-> isExcluded(p) ]
    /\ UNCHANGED notGateVars

\* a call of isFileMatch(path, config)
CallIsFileMatch ==
    /\ gRes.fn = "none"
    /\ \E p \in GatePaths, fp \in GateFilePatterns, gp \in GateGlobPatterns :
        /\ gConfig' = GateConfig(fp, gp, FALSE)
        /\ gPath' = p
        /\ gRes' = [ fn |-> "isFileMatch", val |-> isFileMatch(p, gConfig') ]
    /\ UNCHANGED notGateVars

GateNext ==
    \/ CallIsExcludedPath
    \/ CallIsExcluded
    \/ CallIsFileMatch


\* the path has a segment equal to one of the configured exclusion names
HasExcludedSegment(path) ==
    LET parts == Split(path, SLASH)
    IN \E i \in 1..Len(parts) : \E k \in 1..Len(ExcludedPaths) : parts[i] = ExcludedPaths[k]

\* C1 (as claimed, for every exclusion gate of the repository): a path with
\* a segment equal to an exclusion name is excluded if and only if
\* unsafeMode is false.
C1_GateFollowsUnsafeMode ==
    (gRes.fn \in {"isExcludedPath", "isExcluded"} /\ HasExcludedSegment(gPath))
        => (gRes.val <=> ~gConfig.unsafeMode)

\* C1, for isExcludedPath alone (the gate of both processFiles): a path with
\* an excluded segment is excluded if and only if unsafeMode is false.
C1_ExcludedPathFollowsUnsafeMode ==
    (gRes.fn = "isExcludedPath" /\ HasExcludedSegment(gPath))
        => (gRes.val <=> ~gConfig.unsafeMode)

\* isExcludedPath was called in unsafe mode on a path with an excluded segment
C1_WitnessUnsafe ==
    /\ gRes.fn = "isExcludedPath"
    /\ HasExcludedSegment(gPath)
    /\ gConfig.unsafeMode
    /\ ~gRes.val

\* C2: with a non-empty filePatterns list, isFileMatch is true exactly when
\* the file's normalized extension equals the normalized form of an entry,
\* whatever globPatterns and the default extensions say.
C2_FilePatternsDecide ==
    (gRes.fn = "isFileMatch" /\ Len(gConfig.filePatterns) > 0)
        => (gRes.val <=>
               cleanPattern(Ext(gPath)) \in
                   { cleanPattern(gConfig.filePatterns[i]) :
                        i \in 1..Len(gConfig.filePatterns) })

\* a file that a configured glob and the default list both accept is
\* rejected because its extension is not in the non-empty filePatterns
C2_WitnessRejectedDespiteGlob ==
    /\ gRes.fn = "isFileMatch"
    /\ Len(gConfig.filePatterns) > 0
    /\ ~gRes.val
    /\ \E i \in 1..Len(gConfig.globPatterns) :
           MatchGlob(gConfig.globPatterns[i], Base(gPath))
    /\ \E i \in 1..Len(defaultPatterns) : defaultPatterns[i] = cleanPattern(Ext(gPath))

\* the base name matches one of the configured glob patterns
GlobAccepts(path, config) ==
    \E i \in 1..Len(config.globPatterns) :
        MatchGlob(config.globPatterns[i], Base(path))

\* the normalized extension is in the built-in list
DefaultAccepts(path) ==
    \E i \in 1..Len(defaultPatterns) : defaultPatterns[i] = cleanPattern(Ext(path))

\* C13: with an empty filePatterns list, isFileMatch is true exactly when
\* the base name matches a glob pattern if globPatterns is non-empty
\* (whatever the default extensions say), and exactly when the normalized
\* extension is in the built-in list if globPatterns is empty too.
C13_GlobsThenDefaults ==
    (gRes.fn = "isFileMatch" /\ Len(gConfig.filePatterns) = 0)
        => (gRes.val <=>
               IF Len(gConfig.globPatterns) > 0
               THEN GlobAccepts(gPath, gConfig)
               ELSE DefaultAccepts(gPath))

\* a file whose extension is in the built-in list is rejected because no
\* configured glob matches its base name
C13_WitnessGlobMissRejected ==
    /\ gRes.fn = "isFileMatch"
    /\ Len(gConfig.filePatterns) = 0
    /\ Len(gConfig.globPatterns) > 0
    /\ ~GlobAccepts(gPath, gConfig)
    /\ DefaultAccepts(gPath)
    /\ ~gRes.val

\* a segment that begins with "." and is neither "." nor ".."
HiddenName(seg) ==
    /\ HasPrefix(seg, <<DOT>>)
    /\ seg # <<DOT>>
    /\ seg # <<DOT, DOT>>

\* the segments of the path that are hidden names
HiddenSegments(path) ==
    LET parts == Split(path, SLASH)
    IN { i \in 1..Len(parts) : HiddenName(parts[i]) }

\* the last segment of the path is a hidden name
LastSegmentHidden(path) ==
    Len(Split(path, SLASH)) \in HiddenSegments(path)

\* C15 (as claimed): a path with a hidden segment at any position is
\* excluded by isExcludedPath if and only if unsafeMode is false.
C15_AnyHiddenSegmentExcluded ==
    (gRes.fn = "isExcludedPath" /\ HiddenSegments(gPath) # {})
        => (gRes.val <=> ~gConfig.unsafeMode)

\* C15 (amended): of the paths with a hidden segment, isExcludedPath
\* excludes, when unsafeMode is false, exactly those whose last segment is
\* hidden or that have a segment equal to an exclusion name; when
\* unsafeMode is true it excludes none.
C15_HiddenBaseExcluded ==
    (gRes.fn = "isExcludedPath" /\ HiddenSegments(gPath) # {})
        => (gRes.val <=>
               /\ ~gConfig.unsafeMode
               /\ LastSegmentHidden(gPath) \/ HasExcludedSegment(gPath))

\* isExcludedPath let through, with unsafeMode false, a path whose hidden
\* segment is not the last one
C15_WitnessHiddenParentPasses ==
    /\ gRes.fn = "isExcludedPath"
    /\ ~gConfig.unsafeMode
    /\ HiddenSegments(gPath) # {}
    /\ ~LastSegmentHidden(gPath)
    /\ ~gRes.val

\* the path of a root directory that lies below another directory
BelowAncestor(path) == Len(Split(path, SLASH)) >= 3

\* the root directory's own name, as a path of one segment
OwnName(path) == <<SLASH>> \o Base(path)

\* C29: a root directory is excluded by a gate only because of its own
\* name: when the gate lets the name through as a path of its own, the
\* segments of the directories the root lies in do not make the gate
\* exclude the root.
C29_AncestorsNeverExclude ==
    /\ (gRes.fn = "isExcludedPath" /\ BelowAncestor(gPath)
            /\ ~isExcludedPath(OwnName(gPath), gConfig)) => ~gRes.val
    /\ (gRes.fn = "isExcluded" /\ BelowAncestor(gPath)
            /\ ~isExcluded(OwnName(gPath))) => ~gRes.val

\* C29, for what isExcludedPath does ignore: a hidden directory above the
\* root excludes nothing unless its name is one of the exclusion names.
C29_HiddenAncestorsIgnored ==
    (gRes.fn = "isExcludedPath" /\ BelowAncestor(gPath)
        /\ ~HasExcludedSegment(gPath) /\ ~LastSegmentHidden(gPath)) => ~gRes.val

---------------------------------------------------------------------------
(* TokenCounter                                                            *)

\* unicode.IsPunct on ASCII: the characters of category P
IsPunct(c) ==
    c \in { "!", "\"", "#", "%", "&", "'", "(", ")", "*", ",", "-", ".", "/",
            ":", ";", "?", "@", "[", "\\", "]", "_", "{", "}" }

\* the positions at which a maximal run of non-space characters starts
WordStarts(text) ==
    { i \in 1..Len(text) : ~IsSpace(text[i]) /\ (i = 1 \/ IsSpace(text[i - 1])) }

RECURSIVE WordEnd(_, _)
\* the position at which the run that holds position i ends
WordEnd(text, i) ==
    IF i = Len(text) \/ IsSpace(text[i + 1]) THEN i ELSE WordEnd(text, i + 1)

RECURSIVE WordsFrom(_, _)
\* the runs that start at the positions given, in the order of the text
WordsFrom(text, starts) ==
    IF starts = {} THEN <<>>
    ELSE LET i == CHOOSE i \in starts : \A j \in starts : i <= j
         IN << SubSeq(text, i, WordEnd(text, i)) >> \o WordsFrom(text, starts \ {i})

\* strings.Fields: the maximal runs of non-space characters
Fields(text) == WordsFrom(text, WordStarts(text))

RECURSIVE CountWord_PunctJoins(_, _, _)
\* the scan of one word with punctuation counted but not ending the token
\* before it
CountWord_PunctJoins(word, tokens, inToken) ==
    IF word = <<>> THEN tokens
    ELSE IF IsPunct(Head(word))
         THEN CountWord_PunctJoins(Tail(word), tokens + 1, inToken)
         ELSE IF ~inToken
              THEN CountWord_PunctJoins(Tail(word), tokens + 1, TRUE)
              ELSE CountWord_PunctJoins(Tail(word), tokens, inToken)

RECURSIVE CountWord(_, _, _)
\* the inner loop of CountTokens over the characters of one word
CountWord(word, tokens, inToken) ==
    IF word = <<>> THEN tokens
    ELSE IF IsPunct(Head(word))
         THEN CountWord(Tail(word), tokens + 1, FALSE)
         ELSE IF ~inToken
              THEN CountWord(Tail(word), tokens + 1, TRUE)
              ELSE CountWord(Tail(word), tokens, inToken)

RECURSIVE CountWords(_)
\* the outer loop of CountTokens: inToken is false at the start of each
\* word, and the tokens of the words add up
CountWords(words) ==
    IF words = <<>> THEN 0
    ELSE CountWord(Head(words), 0, FALSE) + CountWords(Tail(words))

\* the value CountTokens(text) returns
CountTokens(text) == CountWords(Fields(text))

\* the longest text CountTokens is called with, in characters
MaxTokLen == 4
\* the most CountTokens calls on one TokenCounter
MaxTokCalls == 2

TokChars == { "a", ",", " " }

FooBar == <<"f","o","o",","," ","b","a","r","!">>

TokTexts == SeqsUpTo(TokChars, MaxTokLen) \cup { FooBar }

NoTokCall == [ fn |-> "none", text |-> <<>>, val |-> 0 ]

\* NewTokenCounter
TokIdle ==
    /\ tcCount = 0
    /\ tcSum = 0
    /\ tcCalls = 0
    /\ tcLast = NoTokCall

\* CountTokens storing the count of the call instead of adding it
DoCountTokens_Overwrites ==
    /\ tcCalls < MaxTokCalls
    /\ \E text \in TokTexts :
        LET tokens == CountTokens(text) IN
        /\ tcCount' = tokens
        /\ tcSum' = tcSum + tokens
        /\ tcLast' = [ fn |-> "CountTokens", text |-> text, val |-> tokens ]
    /\ tcCalls' = tcCalls + 1
    /\ UNCHANGED notTokVars

\* tc.CountTokens(text)
DoCountTokens ==
    /\ tcCalls < MaxTokCalls
    /\ \E text \in TokTexts :
        LET tokens == CountTokens(text) IN
        /\ tcCount' = tcCount + tokens
        /\ tcSum' = tcSum + tokens
        /\ tcLast' = [ fn |-> "CountTokens", text |-> text, val |-> tokens ]
    /\ tcCalls' = tcCalls + 1
    /\ UNCHANGED notTokVars

\* tc.GetTotalTokens()
DoGetTotalTokens ==
    /\ tcLast.fn # "GetTotalTokens"
    /\ tcLast' = [ fn |-> "GetTotalTokens", text |-> <<>>, val |-> tcCount ]
    /\ UNCHANGED <<tcCount, tcSum, tcCalls>>
    /\ UNCHANGED notTokVars

TokNext ==
    \/ DoCountTokens
    \/ DoGetTotalTokens


\* the number of punctuation characters of a word
PunctCount(word) == Cardinality({ i \in 1..Len(word) : IsPunct(word[i]) })

\* the number of maximal contiguous runs of non-punctuation characters
RunCount(word) ==
    Cardinality({ i \in 1..Len(word) :
                    /\ ~IsPunct(word[i])
                    /\ (i = 1 \/ IsPunct(word[i - 1])) })

RECURSIVE SumWords(_)
SumWords(words) ==
    IF words = <<>> THEN 0
    ELSE PunctCount(Head(words)) + RunCount(Head(words)) + SumWords(Tail(words))

\* C5: CountTokens returns the sum over the whitespace-separated words of
\* the punctuation characters plus the maximal runs of non-punctuation
\* characters; "foo, bar!" gives 4, an empty or all-whitespace text gives 0.
C5_CountTokensSum ==
    tcLast.fn = "CountTokens" =>
        /\ tcLast.val = SumWords(Fields(tcLast.text))
        /\ (tcLast.text = FooBar => tcLast.val = 4)
        /\ ((\A i \in 1..Len(tcLast.text) : IsSpace(tcLast.text[i])) => tcLast.val = 0)

\* CountTokens was called on "foo, bar!" and returned 4
C5_WitnessFooBar ==
    /\ tcLast.fn = "CountTokens"
    /\ tcLast.text = FooBar
    /\ tcLast.val = 4

\* C26: GetTotalTokens returns the sum of the values the CountTokens calls
\* on the counter have returned so far, which is 0 on a fresh counter, and
\* the total the counter holds is that sum after every call of either
\* method.
C26_TotalIsSumOfCounts ==
    /\ tcCount = tcSum
    /\ tcLast.fn = "GetTotalTokens" => tcLast.val = tcSum
    /\ (tcLast.fn = "GetTotalTokens" /\ tcCalls = 0) => tcLast.val = 0

\* C26, the frame of GetTotalTokens: a call changes neither the total nor
\* the number of CountTokens calls.
C26_GetTotalTokensKeepsTotal ==
    [][ tcLast'.fn = "GetTotalTokens" => tcCount' = tcCount /\ tcCalls' = tcCalls ]_vars

\* GetTotalTokens returned the sum of two non-zero counts
C26_WitnessTotalOfTwo ==
    /\ tcLast.fn = "GetTotalTokens"
    /\ tcCalls = 2
    /\ tcLast.val = tcSum
    /\ tcLast.val >= 3

---------------------------------------------------------------------------
(* The two writers of a record's content, and the parser that reads it     *)

\* Markup is one symbol per tag; the CDATA terminator is three characters,
\* because content can spell it.
CDATA_START == "<![CDATA["
CDATA_END == <<"]", "]", ">">>
\* encoding/xml's cdataEscape: "]]]]><![CDATA[>"
CDATA_ESCAPE == <<"]", "]", "]", "]", ">", CDATA_START, ">">>

RECURSIVE EscapeNested(_)
\* the loop of encoding/xml's emitCDATA: every "]]>" of s is cut out and
\* written as the first two brackets, an end, a new start and the ">"
EscapeNested(s) ==
    LET i == Index(s, CDATA_END) IN
    IF i = 0 THEN s
    ELSE SubSeq(s, 1, i - 1) \o CDATA_ESCAPE \o EscapeNested(SubSeq(s, i + 3, Len(s)))

\* what xml.Encoder writes for a field tagged `xml:",cdata"`
EmitCDATA(s) ==
    IF s = <<>> THEN <<>>
    ELSE <<CDATA_START>> \o EscapeNested(s) \o CDATA_END

\* encoder.Encode(content), the part of the <file> element that holds Content
EncodeContent(content) ==
    <<"<file>">> \o EmitCDATA(content) \o <<"</file>">>

\* bufio.ScanLines' dropCR
DropCR(line) ==
    IF line # <<>> /\ line[Len(line)] = "\r"
    THEN SubSeq(line, 1, Len(line) - 1)
    ELSE line

\* the lines bufio.Scanner yields: split at "\n", no empty line after a
\* final "\n", a trailing "\r" dropped
ScanLines(content) ==
    LET pieces == Split(content, "\n")
        kept == IF pieces[Len(pieces)] = <<>>
                THEN SubSeq(pieces, 1, Len(pieces) - 1)
                ELSE pieces
    IN [ i \in 1..Len(kept) |-> DropCR(kept[i]) ]

\* StreamProcessor.processFile, the part that writes the content: the lines
\* go out as they are between "<![CDATA[\n" and "    ]]>"
StreamContent(content) ==
    LET lines == ScanLines(content) IN
    <<"<content>", CDATA_START, "\n">>
        \o Concat([ i \in 1..Len(lines) |-> Append(lines[i], "\n") ])
        \o <<" ", " ", " ", " ">> \o CDATA_END \o <<"</content>">>

OpenTags == { "<file>", "<content>" }
CloseTags == { "</file>", "</content>" }
ParseError == [ ok |-> FALSE, text |-> <<>> ]

RECURSIVE ParseCharData(_, _, _)
\* an XML parser on the inside of an element: character data is the text
\* outside CDATA sections plus the inside of every CDATA section, a section
\* ends at the first "]]>", and "]]>" in text is a syntax error
ParseCharData(doc, inCData, acc) ==
    IF doc = <<>> THEN ParseError
    ELSE IF inCData
         THEN IF HasPrefix(doc, CDATA_END)
              THEN ParseCharData(SubSeq(doc, 4, Len(doc)), FALSE, acc)
              ELSE ParseCharData(Tail(doc), TRUE, Append(acc, Head(doc)))
         ELSE IF Head(doc) \in CloseTags THEN [ ok |-> TRUE, text |-> acc ]
              ELSE IF Head(doc) = CDATA_START THEN ParseCharData(Tail(doc), TRUE, acc)
              ELSE IF HasPrefix(doc, CDATA_END) \/ Head(doc) \in OpenTags THEN ParseError
              ELSE ParseCharData(Tail(doc), FALSE, Append(acc, Head(doc)))

\* the content a parser reads from a record's element
ParseContent(doc) ==
    IF doc # <<>> /\ Head(doc) \in OpenTags
    THEN ParseCharData(Tail(doc), FALSE, <<>>)
    ELSE ParseError

\* the longest content written, in characters
MaxContentLen == 6

XmlChars == { "]", ">", "x", "\n" }

XmlContents == SeqsUpTo(XmlChars, MaxContentLen)

XmlIdle ==
    /\ xStage = "idle"
    /\ xWriter = "none"
    /\ xContent = <<>>
    /\ xDoc = <<>>
    /\ xParsed = ParseError

\* processFiles: encoder.Encode(content)
WriteWithEncoder ==
    /\ xStage = "idle"
    /\ \E c \in XmlContents :
        /\ xContent' = c
        /\ xDoc' = EncodeContent(c)
    /\ xWriter' = "encoder"
    /\ xStage' = "written"
    /\ xParsed' = xParsed
    /\ UNCHANGED notXmlVars

\* StreamProcessor.processFile
WriteWithStream ==
    /\ xStage = "idle"
    /\ \E c \in XmlContents :
        /\ xContent' = c
        /\ xDoc' = StreamContent(c)
    /\ xWriter' = "stream"
    /\ xStage' = "written"
    /\ xParsed' = xParsed
    /\ UNCHANGED notXmlVars

\* a consumer parses the document
ReadBack ==
    /\ xStage = "written"
    /\ xParsed' = ParseContent(xDoc)
    /\ xStage' = "parsed"
    /\ UNCHANGED <<xWriter, xContent, xDoc>>
    /\ UNCHANGED notXmlVars

XmlNext ==
    \/ WriteWithEncoder
    \/ WriteWithStream
    \/ ReadBack

\* C7 (as claimed, for every serializer): content that holds "]]>" is read
\* back byte-identical after serialize and parse.
C7_RoundTripEverySerializer ==
    (xStage = "parsed" /\ Contains(xContent, CDATA_END))
        => xParsed = [ ok |-> TRUE, text |-> xContent ]

\* C7, for the encoder-based serializer alone: content that holds "]]>" is
\* read back byte-identical.
C7_EncoderRoundTrip ==
    (xStage = "parsed" /\ xWriter = "encoder" /\ Contains(xContent, CDATA_END))
        => xParsed = [ ok |-> TRUE, text |-> xContent ]

\* the encoder wrote content holding the terminator twice, and it was parsed
C7_WitnessEncoderTwoTerminators ==
    /\ xStage = "parsed"
    /\ xWriter = "encoder"
    /\ xContent = CDATA_END \o CDATA_END


---------------------------------------------------------------------------
(* The files on disk                                                       *)

\* A file's content is a sequence of lines; a line is a statement form with
\* its module path (arg) and bound name, rendered to characters by
\* RenderLine.  The forms are the ones the analyzers' patterns tell apart.
Line(form, arg, name) == [ form |-> form, arg |-> arg, name |-> name ]

S_hello == <<"h","e","l","l","o">>
S_x == <<"x">>

RenderLine(l) ==
    CASE l.form = "text" -> l.arg
      [] l.form = "js_bare" -> <<"i","m","p","o","r","t"," ","'">> \o l.arg \o <<"'">>
      [] l.form = "js_from" -> <<"i","m","p","o","r","t"," ">> \o l.name \o <<" ","f","r","o","m"," ","'">> \o l.arg \o <<"'">>
      [] l.form = "js_require" ->
            <<"c","o","n","s","t"," ">> \o l.name \o <<" ","="," ","r","e","q","u","i","r","e","(","'">> \o l.arg \o <<"'", ")">>
      [] l.form = "py_import" -> <<"i","m","p","o","r","t"," ">> \o l.arg
      [] l.form = "py_from" -> <<"f","r","o","m"," ">> \o l.arg \o <<" ","i","m","p","o","r","t"," ">> \o l.name
      [] l.form = "go_package" -> <<"p","a","c","k","a","g","e"," ">> \o l.arg
      [] l.form = "go_import" -> <<"i","m","p","o","r","t"," ","\"">> \o l.arg \o <<"\"">>

\* the bytes of a file: its lines, each ended by a newline
RenderLines(lines) ==
    Concat([ i \in 1..Len(lines) |-> Append(RenderLine(lines[i]), "\n") ])

P_r == <<"/","r">>
P_d == <<"/","d">>

N_a_js == <<"a",".","j","s">>
N_a_txt == <<"a",".","t","x","t">>
N_b_js == <<"b",".","j","s">>
N_b_txt == <<"b",".","t","x","t">>
N_m_js == <<"m",".","j","s">>
N_dup_js == <<"d","u","p",".","j","s">>
N_self_js == <<"s","e","l","f",".","j","s">>
N_p_py == <<"p",".","p","y">>
N_q_go == <<"q",".","g","o">>
N_bad_go == <<"b","a","d",".","g","o">>
N_pkg == <<"p","k","g">>
N_a_py == <<"a",".","p","y">>
N_t_txt == <<"t",".","t","x","t">>

I_a_js == <<".","/","a",".","j","s">>
I_a_txt == <<".","/","a",".","t","x","t">>
I_nope == <<".","/","n","o","p","e",".","j","s">>
I_t_txt == <<".","/","t",".","t","x","t">>
I_self == <<".","/","s","e","l","f",".","j","s">>
I_up == <<".",".","/","a",".","j","s">>
I_lib == <<"l","i","b","/","x">>
I_fs == <<"f","s">>
I_os_path == <<"o","s",".","p","a","t","h">>
I_pkg_a_py == <<"p","k","g",".","a">>
I_fmt == <<"f","m","t">>
I_d_a_js == <<"/","d","/","a",".","j","s">>
I_bare_a_js == <<"a",".","j","s">>
I_github == <<"g","i","t","h","u","b",".","c","o","m","/","x">>

\* the trees the pipeline walks; the children of a directory are in the
\* lexical order in which filepath.Walk reads them
TreeJS ==
    [ name |-> <<>>, dir |-> TRUE, lines |-> <<>>, children |-> <<
        [ name |-> N_a_js, dir |-> FALSE, children |-> <<>>,
          lines |-> << Line("text", S_hello, <<>>) >> ],
        [ name |-> N_b_js, dir |-> FALSE, children |-> <<>>,
          lines |-> << Line("js_bare", I_a_js, <<>>) >> ],
        [ name |-> NODE_MODULES, dir |-> TRUE, lines |-> <<>>, children |-> <<
            [ name |-> N_m_js, dir |-> FALSE, children |-> <<>>,
              lines |-> << Line("js_require", I_a_js, S_x),
                           Line("js_from", I_up, S_x) >> ] >> ] >> ]

TreeTXT ==
    [ name |-> <<>>, dir |-> TRUE, lines |-> <<>>, children |-> <<
        [ name |-> N_a_txt, dir |-> FALSE, children |-> <<>>,
          lines |-> << Line("text", S_hello, <<>>) >> ],
        [ name |-> N_b_txt, dir |-> FALSE, children |-> <<>>,
          lines |-> << Line("js_bare", I_a_txt, <<>>) >> ] >> ]

Trees == { "js", "txt" }

TreeOf(t) == IF t = "js" THEN TreeJS ELSE TreeTXT

\* a second directory, whose files are registered with an analyzer directly
DepFiles ==
    << [ name |-> N_a_js, lines |-> << Line("text", S_hello, <<>>) >> ],
       [ name |-> N_b_js, lines |-> << Line("js_bare", I_a_js, <<>>),
                                       Line("js_require", I_fs, S_x),
                                       Line("js_from", I_nope, S_x),
                                       Line("js_bare", I_t_txt, <<>>) >> ],
       [ name |-> N_t_txt, lines |-> << Line("text", S_hello, <<>>) >> ],
       [ name |-> N_dup_js, lines |-> << Line("js_bare", I_a_js, <<>>),
                                         Line("js_require", I_a_js, S_x),
                                         Line("js_from", I_lib, S_x),
                                         Line("js_bare", I_nope, <<>>) >> ],
       [ name |-> N_self_js, lines |-> << Line("js_from", I_self, S_x),
                                          Line("js_bare", I_bare_a_js, <<>>),
                                          Line("go_import", I_fmt, <<>>) >> ],
       [ name |-> N_p_py, lines |-> << Line("py_import", I_os_path, <<>>),
                                       Line("py_from", I_pkg_a_py, S_x),
                                       Line("js_from", I_a_js, S_x) >> ],
       [ name |-> N_q_go, lines |-> << Line("go_package", S_x, <<>>),
                                       Line("go_import", I_fmt, <<>>),
                                       Line("go_import", I_github, <<>>),
                                       Line("go_import", I_d_a_js, <<>>),
                                       Line("text", S_hello, <<>>) >> ],
       [ name |-> N_bad_go, lines |-> << Line("text", S_hello, <<>>) >> ],
       [ name |-> N_pkg \o <<SLASH>> \o N_a_py,
         lines |-> << Line("py_from", I_fs, S_x) >> ] >>

RECURSIVE TreeFiles(_, _)
\* the files of a tree as path -> lines pairs
TreeFiles(node, path) ==
    IF ~node.dir THEN { [ path |-> path, lines |-> node.lines ] }
    ELSE UNION { TreeFiles(node.children[i],
                           path \o <<SLASH>> \o node.children[i].name) :
                    i \in 1..Len(node.children) }

DiskEntries ==
    TreeFiles(TreeJS, P_r) \cup TreeFiles(TreeTXT, P_r)
        \cup { [ path |-> P_d \o <<SLASH>> \o DepFiles[i].name,
                 lines |-> DepFiles[i].lines ] : i \in 1..Len(DepFiles) }

DiskPaths == { e.path : e \in DiskEntries }

\* the lines of the file at path
Disk(path) == (CHOOSE e \in DiskEntries : e.path = path).lines


---------------------------------------------------------------------------
(* DependencyAnalyzer                                                      *)

\* a nil *DependencyInfo
NilDeps == [ nil |-> TRUE, Imports |-> <<>>, ImportedBy |-> <<>> ]

\* &DependencyInfo{Imports: imports}
NewDeps(imports) == [ nil |-> FALSE, Imports |-> imports, ImportedBy |-> <<>> ]

ImportDependency(path, type) == [ Path |-> path, Type |-> type ]

\* \w of regexp: letters, digits and the underscore
IsWordChar(c) ==
    \/ \E i \in 1..Len(LowerChars) : c = LowerChars[i] \/ c = UpperChars[i]
    \/ c \in { "0", "1", "2", "3", "4", "5", "6", "7", "8", "9", "_" }

RECURSIVE WordPrefix(_)
\* what (\w+) captures at the start of s; empty when it does not match
WordPrefix(s) ==
    IF s # <<>> /\ IsWordChar(Head(s)) THEN <<Head(s)>> \o WordPrefix(Tail(s)) ELSE <<>>

\* the import paths analyzeGoFile reads from a file: go/parser with
\* ImportsOnly wants a package clause, reads the import declarations after
\* it and stops at the first other line
RECURSIVE GoImportPaths(_)
GoImportPaths(lines) ==
    IF lines = <<>> \/ Head(lines).form # "go_import" THEN <<>>
    ELSE <<Head(lines).arg>> \o GoImportPaths(Tail(lines))

GoParses(lines) == lines # <<>> /\ Head(lines).form = "go_package"

\* the classification of analyzeGoFile with its two tests in the other
\* order, the root prefix being looked at last
GoDepType_PrefixLast(importPath, targetDir) ==
    IF Contains(importPath, <<DOT>>) \/ Contains(importPath, <<SLASH>>) THEN "external"
    ELSE IF HasPrefix(importPath, targetDir) THEN "local"
    ELSE "standard"

\* the classification of analyzeGoFile
GoDepType(importPath, targetDir) ==
    IF HasPrefix(importPath, targetDir) THEN "local"
    ELSE IF Contains(importPath, <<DOT>>) \/ Contains(importPath, <<SLASH>>) THEN "external"
    ELSE "standard"

\* the classification of analyzeJSFile without its first test
JSDepType_NeverLocal(importPath) ==
    IF ~Contains(importPath, <<SLASH>>) THEN "standard" ELSE "external"

\* the classification of analyzeJSFile
JSDepType(importPath) ==
    IF HasPrefix(importPath, <<DOT>>) THEN "local"
    ELSE IF ~Contains(importPath, <<SLASH>>) THEN "standard"
    ELSE "external"

\* the classification of analyzePythonFile
PyDepType(importPath) ==
    IF Contains(importPath, <<DOT>>) THEN "local" ELSE "standard"

\* what the three patterns of analyzeJSFile capture from one line, in the
\* order of the patterns: import .. from '..', require('..'), import '..'
JSLineMatches(l) ==
    CASE l.form = "js_from" /\ l.arg # <<>> -> << l.arg >>
      [] l.form = "js_require" /\ l.arg # <<>> -> << l.arg >>
      [] l.form \in {"js_bare", "go_import"} /\ l.arg # <<>> -> << l.arg >>
      [] OTHER -> <<>>

\* what the two patterns of analyzePythonFile capture from one line:
\* ^import\s+(\w+) and ^from\s+([^\s]+)\s+import
PyLineMatches(l) ==
    CASE l.form = "py_import" /\ WordPrefix(l.arg) # <<>> -> << WordPrefix(l.arg) >>
      [] l.form = "js_from" /\ WordPrefix(l.name) # <<>> -> << WordPrefix(l.name) >>
      [] l.form = "py_from" /\ l.arg # <<>> -> << l.arg >>
      [] OTHER -> <<>>

RECURSIVE JSImports(_)
JSImports(lines) ==
    IF lines = <<>> THEN <<>>
    ELSE LET m == JSLineMatches(Head(lines))
         IN [ i \in 1..Len(m) |-> ImportDependency(m[i], JSDepType(m[i])) ]
                \o JSImports(Tail(lines))

RECURSIVE PyImports(_)
PyImports(lines) ==
    IF lines = <<>> THEN <<>>
    ELSE LET m == PyLineMatches(Head(lines))
         IN [ i \in 1..Len(m) |-> ImportDependency(m[i], PyDepType(m[i])) ]
                \o PyImports(Tail(lines))

GoImports(lines, targetDir) ==
    LET paths == GoImportPaths(Tail(lines))
    IN [ i \in 1..Len(paths) |-> ImportDependency(paths[i], GoDepType(paths[i], targetDir)) ]

JSExts == { <<".","j","s">>, <<".","j","s","x">>, <<".","t","s">>, <<".","t","s","x">> }

\* analyzeFile(path, content): [err, content] after the analyzer of the
\* file's extension ran; unreadable says the file cannot be opened now
analyzeFile(path, content, targetDir, unreadable) ==
    LET ext == ToLower(Ext(path)) IN
    IF ext = <<".","g","o">>
    THEN IF unreadable \/ ~GoParses(Disk(path))
         THEN [ err |-> TRUE, content |-> content ]
         ELSE [ err |-> FALSE,
                content |-> [ content EXCEPT
                    !.Dependencies = NewDeps(GoImports(Disk(path), targetDir)) ] ]
    ELSE IF ext \in JSExts
    THEN IF unreadable
         THEN [ err |-> TRUE, content |-> content ]
         ELSE [ err |-> FALSE,
                content |-> [ content EXCEPT
                    !.Dependencies = NewDeps(JSImports(Disk(path))) ] ]
    ELSE IF ext = <<".","p","y">>
    THEN IF unreadable
         THEN [ err |-> TRUE, content |-> content ]
         ELSE [ err |-> FALSE,
                content |-> [ content EXCEPT
                    !.Dependencies = NewDeps(PyImports(Disk(path))) ] ]
    ELSE [ err |-> FALSE, content |-> content ]

RECURSIVE ExtractLoop(_, _, _, _)
\* the first loop of AnalyzeDependencies, over the map in the order given:
\* it returns at the first file whose analysis fails
ExtractLoop(order, fm, targetDir, unreadable) ==
    IF order = <<>> THEN [ err |-> FALSE, fm |-> fm ]
    ELSE LET path == Head(order)
             r == analyzeFile(path, fm[path], targetDir, path \in unreadable)
         IN IF r.err THEN [ err |-> TRUE, fm |-> fm ]
            ELSE ExtractLoop(Tail(order), [ fm EXCEPT ![path] = r.content ],
                             targetDir, unreadable)

\* the first loop of linkDependencies left out
ResetImportedBy_Skipped(fm) == fm

\* the first loop of linkDependencies
ResetImportedBy(fm) ==
    [ k \in DOMAIN fm |->
        IF fm[k].Dependencies.nil THEN fm[k]
        ELSE [ fm[k] EXCEPT !.Dependencies.ImportedBy = <<>> ] ]

\* LinkImport without the test of the import's type
LinkImport_AnyType(fm, path, imp, targetDir) ==
    LET importedPath == Join(targetDir, imp.Path) IN
    IF importedPath \in DOMAIN fm
    THEN LET deps == IF fm[importedPath].Dependencies.nil
                     THEN NewDeps(<<>>)
                     ELSE fm[importedPath].Dependencies
         IN [ fm EXCEPT ![importedPath].Dependencies =
                [ deps EXCEPT !.ImportedBy =
                    Append(deps.ImportedBy, ImportDependency(path, "local")) ] ]
    ELSE fm

\* LinkImport taking a local import that does not resolve off its record
LinkImport_DropsUnresolved(fm, path, imp, targetDir) ==
    LET importedPath == Join(targetDir, imp.Path) IN
    IF imp.Type = "local" /\ importedPath \in DOMAIN fm
    THEN LET deps == IF fm[importedPath].Dependencies.nil
                     THEN NewDeps(<<>>)
                     ELSE fm[importedPath].Dependencies
         IN [ fm EXCEPT ![importedPath].Dependencies =
                [ deps EXCEPT !.ImportedBy =
                    Append(deps.ImportedBy, ImportDependency(path, "local")) ] ]
    ELSE IF imp.Type = "local"
    THEN [ fm EXCEPT ![path].Dependencies.Imports = SelectSeq(@, LAMBDA x : x # imp) ]
    ELSE fm

\* one import of the record at path: a local one that resolves appends an
\* imported-by entry to its target
LinkImport(fm, path, imp, targetDir) ==
    LET importedPath == Join(targetDir, imp.Path) IN
    IF imp.Type = "local" /\ importedPath \in DOMAIN fm
    THEN LET deps == IF fm[importedPath].Dependencies.nil
                     THEN NewDeps(<<>>)
                     ELSE fm[importedPath].Dependencies
         IN [ fm EXCEPT ![importedPath].Dependencies =
                [ deps EXCEPT !.ImportedBy =
                    Append(deps.ImportedBy, ImportDependency(path, "local")) ] ]
    ELSE fm

RECURSIVE LinkImports(_, _, _, _)
LinkImports(fm, path, imports, targetDir) ==
    IF imports = <<>> THEN fm
    ELSE LinkImports(LinkImport(fm, path, Head(imports), targetDir),
                     path, Tail(imports), targetDir)

RECURSIVE LinkLoop(_, _, _)
\* the second loop of linkDependencies, over the map in the order given
LinkLoop(order, fm, targetDir) ==
    IF order = <<>> THEN fm
    ELSE LET path == Head(order) IN
         IF fm[path].Dependencies.nil
         THEN LinkLoop(Tail(order), fm, targetDir)
         ELSE LinkLoop(Tail(order),
                       LinkImports(fm, path, fm[path].Dependencies.Imports, targetDir),
                       targetDir)

\* linkDependencies, iterating the map in the order given
linkDependencies(fm, order, targetDir) ==
    LinkLoop(order, ResetImportedBy(fm), targetDir)

\* AnalyzeDependencies: [err, fm]; the two loops range over the map in
\* orders the runtime chooses
AnalyzeDependencies(fm, targetDir, order1, order2, unreadable) ==
    LET x == ExtractLoop(order1, fm, targetDir, unreadable) IN
    IF x.err THEN x
    ELSE [ err |-> FALSE, fm |-> linkDependencies(x.fm, order2, targetDir) ]

\* the orders a range over a map with these keys can take
Orders(keys) ==
    { o \in [ 1..Cardinality(keys) -> keys ] :
        \A i, j \in 1..Cardinality(keys) : i # j => o[i] # o[j] }

\* a FileContent as processFiles builds it
FileContent(name, size, lines) ==
    [ Name |-> name, Size |-> size, Content |-> lines, Dependencies |-> NilDeps ]

EmptyMap == [ k \in {} |-> NilDeps ]

\* the most files registered with an analyzer that is driven directly
MaxRegistered == 2
\* the most AnalyzeDependencies calls on one analyzer
MaxAnalyses == 2

DepPaths == { P_d \o <<SLASH>> \o DepFiles[i].name : i \in 1..Len(DepFiles) }

DepIdle ==
    /\ daTargetDir = <<>>
    /\ fileMap = EmptyMap
    /\ daErr = "none"
    /\ daRuns = 0

\* NewDependencyAnalyzer(targetDir)
DepNew ==
    /\ daTargetDir = P_d
    /\ fileMap = EmptyMap
    /\ daErr = "none"
    /\ daRuns = 0

\* analyzer.RegisterFile(path, content), before the first analysis
DepRegisterFile ==
    /\ daRuns = 0
    /\ Cardinality(DOMAIN fileMap) < MaxRegistered
    /\ \E path \in DepPaths \ DOMAIN fileMap :
        fileMap' = [ k \in DOMAIN fileMap \cup {path} |->
                        IF k = path
                        THEN FileContent(Rel(daTargetDir, path),
                                         Len(RenderLines(Disk(path))), Disk(path))
                        ELSE fileMap[k] ]
    /\ UNCHANGED <<daTargetDir, daErr, daRuns>>
    /\ UNCHANGED notDepVars

\* analyzer.AnalyzeDependencies()
DepAnalyzeDependencies ==
    /\ daRuns < MaxAnalyses
    /\ DOMAIN fileMap # {}
    /\ \E order1 \in Orders(DOMAIN fileMap), order2 \in Orders(DOMAIN fileMap),
          unreadable \in SUBSET (DOMAIN fileMap) :
        /\ Cardinality(unreadable) <= 1
        /\ LET r == AnalyzeDependencies(fileMap, daTargetDir, order1, order2, unreadable)
           IN /\ fileMap' = r.fm
              /\ daErr' = IF r.err THEN "error" ELSE "nil"
    /\ daRuns' = daRuns + 1
    /\ UNCHANGED daTargetDir
    /\ UNCHANGED notDepVars

DepNext ==
    \/ DepRegisterFile
    \/ DepAnalyzeDependencies

\* the entries of B's imported-by list that reference A
ImportedByRefs(fm, A, B) ==
    { i \in 1..Len(fm[B].Dependencies.ImportedBy) :
        fm[B].Dependencies.ImportedBy[i].Path = A }

\* the local-classified outbound edges of A that resolve to B
ResolvingEdges(fm, A, B, targetDir) ==
    { i \in 1..Len(fm[A].Dependencies.Imports) :
        /\ fm[A].Dependencies.Imports[i].Type = "local"
        /\ Join(targetDir, fm[A].Dependencies.Imports[i].Path) = B }

\* C3: once AnalyzeDependencies has run through (it returned nil), for every
\* pair of registered records (A, B) B's imported-by list holds exactly one
\* entry referencing A per local edge of A that resolves to B, and none
\* when no edge of A resolves to B.
C3_OneEntryPerResolvingEdge ==
    daErr = "nil" =>
        \A A \in DOMAIN fileMap, B \in DOMAIN fileMap :
            Cardinality(ImportedByRefs(fileMap, A, B))
                = Cardinality(ResolvingEdges(fileMap, A, B, daTargetDir))

\* after an analysis, one record holds two entries for the same importer,
\* another importer's local edge resolved to nothing, and a third record's
\* edge to a registered file is not local
C3_WitnessTwoEdgesAndAMiss ==
    /\ daErr = "nil"
    /\ \E A \in DOMAIN fileMap, B \in DOMAIN fileMap :
           Cardinality(ImportedByRefs(fileMap, A, B)) = 2
    /\ \E A \in DOMAIN fileMap :
           \E i \in 1..Len(fileMap[A].Dependencies.Imports) :
              /\ fileMap[A].Dependencies.Imports[i].Type = "local"
              /\ Join(daTargetDir, fileMap[A].Dependencies.Imports[i].Path)
                    \notin DOMAIN fileMap


---------------------------------------------------------------------------
(* The environment of a run                                                *)

\* the working directory of the process
Cwd == <<SLASH>>

\* the root given as a relative path
R_rel == <<"r">>

\* filepath.IsAbs
IsAbs(path) == path # <<>> /\ Head(path) = SLASH

\* filepath.Abs, when the working directory can be read
Abs(path) == IF IsAbs(path) THEN Clean(path) ELSE Join(Cwd, path)

RECURSIVE Descend(_, _)
Descend(node, segs) ==
    IF segs = <<>> THEN node
    ELSE LET i == CHOOSE i \in 1..Len(node.children) :
                        node.children[i].name = Head(segs)
         IN Descend(node.children[i], Tail(segs))

\* os.Lstat of a path the walk reached, in tree t
NodeAt(t, path) ==
    IF Abs(path) = P_r THEN TreeOf(t)
    ELSE Descend(TreeOf(t), Split(Rel(P_r, Abs(path)), SLASH))

\* info.Size()
FileSize(t, path) == Len(RenderLines(NodeAt(t, path).lines))

\* what filepath.Walk visits below a directory: readDirNames sorts the
\* names, each is joined to the directory's path
ChildPaths(t, path) ==
    [ i \in 1..Len(NodeAt(t, path).children) |->
        Join(path, NodeAt(t, path).children[i].name) ]

\* the size limit of the runs that have one, in bytes
SizeLimit == 10

\* the most I/O failures one behaviour meets
MaxFaults == 2

RunConfig(fp, unsafe, max, dir) ==
    [ maxFileSize |-> max, filePatterns |-> fp, globPatterns |-> <<>>,
      targetDir |-> dir, unsafeMode |-> unsafe ]

\* a size limit that a file of the trees meets exactly: the size of b.js
ExactLimit == FileSize("js", Join(P_r, N_b_js))

RunConfigs ==
    { RunConfig(fp, unsafe, max, dir) :
        fp \in { <<>>, << <<"j","s">> >> }, unsafe \in BOOLEAN,
        max \in { -1, 0, ExactLimit, SizeLimit }, dir \in { P_r, R_rel } }

Modes == { "stream", "buffered", "sp" }

\* the two versions of processFiles
PF == { "stream", "buffered" }

---------------------------------------------------------------------------
(* The output document                                                     *)

\* The destination receives a sequence of items: the header, the opening
\* and closing tag of the root element, file elements, and fragments (the
\* bytes of an element whose writing broke off).
Item(kind, attr, name, size, content, deps, imports) ==
    [ kind |-> kind, attr |-> attr, name |-> name, size |-> size,
      content |-> content, deps |-> deps, imports |-> imports ]

Marker(kind) == Item(kind, "", <<>>, 0, <<>>, NilDeps, <<>>)

\* what encoder.Encode writes for a FileContent
FileElem(content) ==
    Item("file", "name", content.Name, content.Size, content.Content,
         content.Dependencies, <<>>)

\* what StreamProcessor.processFile writes for a file
SPElem(path, size, lines, imports) ==
    Item("file", "path", path, size, lines, NilDeps, imports)

Fragment(name) == Item("fragment", "", name, 0, <<>>, NilDeps, <<>>)

\* xml.Header and "<files>\n"
DocStart == << Marker("header"), Marker("open") >>

\* the file elements of a document
FileElems(doc) == { i \in 1..Len(doc) : doc[i].kind = "file" }

Digits == <<"0","1","2","3","4","5","6","7","8","9">>

RECURSIVE Itoa(_)
\* strconv's decimal form of a natural number
Itoa(n) == IF n < 10 THEN <<Digits[n + 1]>> ELSE Itoa(n \div 10) \o <<Digits[(n % 10) + 1]>>

CDATA_START_CHARS == <<"<","!","[","C","D","A","T","A","[">>

\* the characters of a text written with CDATA_START as one symbol
Chars(s) ==
    Concat([ i \in 1..Len(s) |-> IF s[i] = CDATA_START THEN CDATA_START_CHARS ELSE <<s[i]>> ])

TypeChars(type) ==
    CASE type = "local" -> <<"l","o","c","a","l">>
      [] type = "external" -> <<"e","x","t","e","r","n","a","l">>
      [] type = "standard" -> <<"s","t","a","n","d","a","r","d">>

\* an ImportDependency element under the tag given, indented two levels
DepText(tag, d) ==
    <<"\n"," "," "," "," ","<">> \o tag \o <<" ","p","a","t","h","=","\"">> \o d.Path \o <<"\""," ","t","y","p","e","=","\"">> \o TypeChars(d.Type)
        \o <<"\"",">","<","/">> \o tag \o <<">">>

\* the <dependencies> child of a file element: omitted for a nil pointer
DepsText(deps) ==
    IF deps.nil THEN <<>>
    ELSE <<"\n"," "," ","<","d","e","p","e","n","d","e","n","c","i","e","s",">">>
            \o Concat([ i \in 1..Len(deps.Imports) |-> DepText(<<"i","m","p","o","r","t","s">>, deps.Imports[i]) ])
            \o Concat([ i \in 1..Len(deps.ImportedBy) |-> DepText(<<"i","m","p","o","r","t","e","d","_","b","y">>, deps.ImportedBy[i]) ])
            \o (IF deps.Imports = <<>> /\ deps.ImportedBy = <<>> THEN <<>> ELSE <<"\n"," "," ">>)
            \o <<"<","/","d","e","p","e","n","d","e","n","c","i","e","s",">","\n">>

\* the bytes of a file element written by an encoder with Indent("", "  ");
\* every element after the encoder's first starts on a new line
ElemText(e, first) ==
    (IF first THEN <<>> ELSE <<"\n">>)
        \o <<"<","f","i","l","e"," ","n","a","m","e","=","\"">> \o e.name \o <<"\""," ","s","i","z","e","=","\"">> \o Itoa(e.size) \o <<"\"",">">>
        \o Chars(EmitCDATA(RenderLines(e.content)))
        \o DepsText(e.deps)
        \o <<"<","/","f","i","l","e",">">>

ItemText(doc, i) ==
    CASE doc[i].kind = "header" -> <<"<","?","x","m","l"," ","v","e","r","s","i","o","n","=","\"","1",".","0","\""," ","e","n","c","o","d","i","n","g","=","\"","U","T","F","-","8","\"","?",">","\n">>
      [] doc[i].kind = "open" -> <<"<","f","i","l","e","s",">","\n">>
      [] doc[i].kind = "close" -> <<"<","/","f","i","l","e","s",">","\n">>
      [] doc[i].kind = "file" -> ElemText(doc[i], \A j \in 1..(i - 1) : doc[j].kind # "file")
      [] OTHER -> <<>>

\* xmlBuffer.String()
DocText(doc) == Concat([ i \in 1..Len(doc) |-> ItemText(doc, i) ])

---------------------------------------------------------------------------
(* Stats                                                                   *)

ZeroStats == [ filesProc |-> 0, bytesProc |-> 0, errors |-> 0, tokens |-> 0 ]

\* stats.errors++ with filesProc counted as well
CountError_AsProcessed(s) == [ s EXCEPT !.errors = @ + 1, !.filesProc = @ + 1 ]

\* stats.errors++
CountError(s) == [ s EXCEPT !.errors = @ + 1 ]

\* stats.filesProc++; stats.bytesProc += info.Size()
CountFile(s, size) == [ s EXCEPT !.filesProc = @ + 1, !.bytesProc = @ + size ]

\* the size test with a file of exactly maxFileSize bytes over the limit
ExceedsLimit_AtLimit(size, config) == config.maxFileSize > 0 /\ size >= config.maxFileSize

\* config.maxFileSize > 0 && info.Size() > config.maxFileSize
ExceedsLimit(size, config) == config.maxFileSize > 0 /\ size > config.maxFileSize

\* the entry the walk function was called with and how the call ended
Entry(path, outcome) == [ path |-> path, outcome |-> outcome ]

NoEntry == Entry(<<>>, "none")

\* no run has been started
RunIdle ==
    /\ mode = "none"
    /\ tree = "none"
    /\ cfg = RunConfig(<<>>, FALSE, 0, <<>>)
    /\ absTargetDir = <<>>
    /\ pc = "idle"
    /\ todo = <<>>
    /\ stats = ZeroStats
    /\ out = <<>>
    /\ xmlBuffer = <<>>
    /\ result = "none"
    /\ last = NoEntry
    /\ faults = 0
    /\ runNo = 0
    /\ firstOut = <<>>

\* a run is about to start: one pipeline, one tree, one Config
RunStart ==
    /\ mode \in Modes
    /\ tree \in Trees
    /\ cfg \in RunConfigs
    /\ absTargetDir = <<>>
    /\ pc = "start"
    /\ todo = <<>>
    /\ stats = ZeroStats
    /\ out = <<>>
    /\ xmlBuffer = <<>>
    /\ result = "none"
    /\ last = NoEntry
    /\ faults = 0
    /\ runNo = 1
    /\ firstOut = <<>>

---------------------------------------------------------------------------
(* processFiles: the walk                                                  *)

\* what the walk of processFiles leaves alone whatever the entry
WalkKeeps ==
    /\ UNCHANGED <<mode, tree, cfg, absTargetDir, pc, xmlBuffer, result, runNo, firstOut>>
    /\ UNCHANGED <<daTargetDir, daErr, daRuns>>
    /\ UNCHANGED tokVars
    /\ UNCHANGED notRunVars

\* the walk function is about to be called with a file that passed
\* isExcludedPath and isFileMatch
AtFile ==
    /\ mode \in PF
    /\ pc = "walk"
    /\ todo # <<>>
    /\ ~NodeAt(tree, Head(todo)).dir
    /\ ~isExcludedPath(Head(todo), cfg)
    /\ isFileMatch(Head(todo), cfg)

\* ... and is not over the size limit
AtReadableFile ==
    /\ AtFile
    /\ ~ExceedsLimit(FileSize(tree, Head(todo)), cfg)

\* the FileContent built from the file at the head of the walk
HeadContent ==
    FileContent(Rel(absTargetDir, Head(todo)), FileSize(tree, Head(todo)),
                NodeAt(tree, Head(todo)).lines)

\* PF_Start with the buffered version writing the header to the destination
\* at once, as the streaming version does
PF_Start_HeaderAtOnce ==
    /\ mode \in PF
    /\ pc = "start"
    /\ absTargetDir' = Abs(cfg.targetDir)
    /\ todo' = << Abs(cfg.targetDir) >>
    /\ pc' = "walk"
    /\ out' = DocStart
    /\ daTargetDir' = IF mode = "buffered" THEN Abs(cfg.targetDir) ELSE daTargetDir
    /\ UNCHANGED <<mode, tree, cfg, stats, xmlBuffer, result, last, faults, runNo, firstOut>>
    /\ UNCHANGED <<fileMap, daErr, daRuns>>
    /\ UNCHANGED tokVars
    /\ UNCHANGED notRunVars

\* processFiles up to the call of filepath.Walk; the streaming version
\* writes the header, ignoring what the writes return, and the buffered one
\* creates its analyzer
PF_Start ==
    /\ mode \in PF
    /\ pc = "start"
    /\ absTargetDir' = Abs(cfg.targetDir)
    /\ todo' = << Abs(cfg.targetDir) >>
    /\ pc' = "walk"
    /\ out' = IF mode = "stream" THEN DocStart ELSE out
    /\ daTargetDir' = IF mode = "buffered" THEN Abs(cfg.targetDir) ELSE daTargetDir
    /\ UNCHANGED <<mode, tree, cfg, stats, xmlBuffer, result, last, faults, runNo, firstOut>>
    /\ UNCHANGED <<fileMap, daErr, daRuns>>
    /\ UNCHANGED tokVars
    /\ UNCHANGED notRunVars

\* filepath.Abs fails: the working directory of a relative root cannot be read
PF_AbsError ==
    /\ mode \in PF
    /\ pc = "start"
    /\ ~IsAbs(cfg.targetDir)
    /\ faults < MaxFaults
    /\ faults' = faults + 1
    /\ result' = "abs"
    /\ pc' = "done"
    /\ UNCHANGED <<mode, tree, cfg, absTargetDir, todo, stats, out, xmlBuffer, last, runNo, firstOut>>
    /\ UNCHANGED depVars
    /\ UNCHANGED tokVars
    /\ UNCHANGED notRunVars

\* the walk function called with err != nil: Lstat of the entry or the
\* reading of the directory failed
PF_AccessError ==
    /\ mode \in PF
    /\ pc = "walk"
    /\ todo # <<>>
    /\ faults < MaxFaults
    /\ faults' = faults + 1
    /\ stats' = CountError(stats)
    /\ todo' = Tail(todo)
    /\ last' = Entry(Head(todo), "access_error")
    /\ UNCHANGED <<out, fileMap>>
    /\ WalkKeeps

\* a directory: SkipDir when it is excluded, else the walk descends
PF_Dir ==
    /\ mode \in PF
    /\ pc = "walk"
    /\ todo # <<>>
    /\ NodeAt(tree, Head(todo)).dir
    /\ IF isExcludedPath(Head(todo), cfg)
       THEN /\ todo' = Tail(todo)
            /\ last' = Entry(Head(todo), "skipdir")
       ELSE /\ todo' = ChildPaths(tree, Head(todo)) \o Tail(todo)
            /\ last' = Entry(Head(todo), "dir")
    /\ UNCHANGED <<stats, out, faults, fileMap>>
    /\ WalkKeeps

\* PF_Skip with the skipped file counted as an error
PF_Skip_CountsError ==
    /\ mode \in PF
    /\ pc = "walk"
    /\ todo # <<>>
    /\ ~NodeAt(tree, Head(todo)).dir
    /\ isExcludedPath(Head(todo), cfg) \/ ~isFileMatch(Head(todo), cfg)
    /\ todo' = Tail(todo)
    /\ last' = Entry(Head(todo), "skipped")
    /\ stats' = CountError(stats)
    /\ UNCHANGED <<out, faults, fileMap>>
    /\ WalkKeeps

\* a file that isExcludedPath excludes or isFileMatch rejects
PF_Skip ==
    /\ mode \in PF
    /\ pc = "walk"
    /\ todo # <<>>
    /\ ~NodeAt(tree, Head(todo)).dir
    /\ isExcludedPath(Head(todo), cfg) \/ ~isFileMatch(Head(todo), cfg)
    /\ todo' = Tail(todo)
    /\ last' = Entry(Head(todo), "skipped")
    /\ UNCHANGED <<stats, out, faults, fileMap>>
    /\ WalkKeeps

\* a file over the size limit
PF_TooLarge ==
    /\ AtFile
    /\ ExceedsLimit(FileSize(tree, Head(todo)), cfg)
    /\ stats' = CountError(stats)
    /\ todo' = Tail(todo)
    /\ last' = Entry(Head(todo), "too_large")
    /\ UNCHANGED <<out, faults, fileMap>>
    /\ WalkKeeps

\* filepath.Rel, os.Open or io.Copy fails
PF_EntryError ==
    /\ AtReadableFile
    /\ faults < MaxFaults
    /\ \E kind \in { "rel_error", "open_error", "read_error" } :
        last' = Entry(Head(todo), kind)
    /\ faults' = faults + 1
    /\ stats' = CountError(stats)
    /\ todo' = Tail(todo)
    /\ UNCHANGED <<out, fileMap>>
    /\ WalkKeeps

\* streaming version: the record is encoded to the writer
Stream_Encode ==
    /\ mode = "stream"
    /\ AtReadableFile
    /\ out' = Append(out, FileElem(HeadContent))
    /\ stats' = CountFile(stats, HeadContent.Size)
    /\ todo' = Tail(todo)
    /\ last' = Entry(Head(todo), "emitted")
    /\ UNCHANGED <<faults, fileMap>>
    /\ WalkKeeps

\* streaming version: encoder.Encode fails; the writer may have received
\* the beginning of the element
Stream_EncodeError ==
    /\ mode = "stream"
    /\ AtReadableFile
    /\ faults < MaxFaults
    /\ \E partial \in BOOLEAN :
        out' = IF partial THEN Append(out, Fragment(HeadContent.Name)) ELSE out
    /\ faults' = faults + 1
    /\ stats' = CountError(stats)
    /\ todo' = Tail(todo)
    /\ last' = Entry(Head(todo), "encode_error")
    /\ UNCHANGED fileMap
    /\ WalkKeeps

\* buffered version: the record is registered with the analyzer and put
\* into fileContents under its absolute path; both maps hold the same
\* pointer, so one map models them
Buf_Register ==
    /\ mode = "buffered"
    /\ AtReadableFile
    /\ fileMap' = [ k \in DOMAIN fileMap \cup { Head(todo) } |->
                      IF k = Head(todo) THEN HeadContent ELSE fileMap[k] ]
    /\ stats' = CountFile(stats, HeadContent.Size)
    /\ todo' = Tail(todo)
    /\ last' = Entry(Head(todo), "registered")
    /\ UNCHANGED <<out, faults>>
    /\ WalkKeeps

\* streaming version, after the walk: the closing tag, and the walk's error,
\* which is nil since the walk function returns nil or SkipDir
Stream_Finish ==
    /\ mode = "stream"
    /\ pc = "walk"
    /\ todo = <<>>
    /\ out' = Append(out, Marker("close"))
    /\ result' = "nil"
    /\ pc' = "done"
    /\ UNCHANGED <<mode, tree, cfg, absTargetDir, todo, stats, xmlBuffer, last, faults, runNo, firstOut>>
    /\ UNCHANGED depVars
    /\ UNCHANGED tokVars
    /\ UNCHANGED notRunVars

---------------------------------------------------------------------------
(* processFiles, buffered version: after the walk                          *)

\* analyzer.AnalyzeDependencies(): an error is counted and the run goes on
Buf_Analyze ==
    /\ mode = "buffered"
    /\ pc = "walk"
    /\ todo = <<>>
    /\ \E order1 \in Orders(DOMAIN fileMap), order2 \in Orders(DOMAIN fileMap),
          unreadable \in SUBSET (DOMAIN fileMap) :
        /\ Cardinality(unreadable) <= 1
        /\ faults + Cardinality(unreadable) <= MaxFaults
        /\ faults' = faults + Cardinality(unreadable)
        /\ LET r == AnalyzeDependencies(fileMap, daTargetDir, order1, order2, unreadable)
           IN /\ fileMap' = r.fm
              /\ daErr' = IF r.err THEN "error" ELSE "nil"
              /\ stats' = IF r.err THEN CountError(stats) ELSE stats
    /\ daRuns' = daRuns + 1
    /\ pc' = "serialize"
    /\ UNCHANGED <<mode, tree, cfg, absTargetDir, todo, out, xmlBuffer, result, last, runNo, firstOut>>
    /\ UNCHANGED daTargetDir
    /\ UNCHANGED tokVars
    /\ UNCHANGED notRunVars

RECURSIVE EncodeAll(_, _, _)
\* the loop over fileContents in the order given; a record whose encoding
\* fails writes nothing
EncodeAll(order, fm, failed) ==
    IF order = <<>> THEN <<>>
    ELSE (IF Head(order) \in failed THEN <<>> ELSE << FileElem(fm[Head(order)]) >>)
            \o EncodeAll(Tail(order), fm, failed)

\* the document is serialized into xmlBuffer, the range over fileContents
\* taking an order the runtime chooses, and its tokens are counted
Buf_Serialize ==
    /\ mode = "buffered"
    /\ pc = "serialize"
    /\ \E order \in Orders(DOMAIN fileMap), failed \in SUBSET (DOMAIN fileMap) :
        /\ Cardinality(failed) <= 1
        /\ faults + Cardinality(failed) <= MaxFaults
        /\ faults' = faults + Cardinality(failed)
        /\ xmlBuffer' = DocStart \o EncodeAll(order, fileMap, failed) \o << Marker("close") >>
        /\ \E xmlContent \in { DocText(xmlBuffer') } :
            \E tokenCount \in { CountTokens(xmlContent) } :
                /\ stats' = [ stats EXCEPT !.errors = @ + Cardinality(failed),
                                           !.tokens = tokenCount ]
                /\ tcCount' = tokenCount
                /\ tcSum' = tokenCount
                /\ tcCalls' = 1
                /\ tcLast' = [ fn |-> "CountTokens", text |-> xmlContent,
                               val |-> tokenCount ]
    /\ pc' = "write"
    /\ UNCHANGED <<mode, tree, cfg, absTargetDir, todo, out, result, last, runNo, firstOut>>
    /\ UNCHANGED depVars
    /\ UNCHANGED notRunVars

\* Buf_Write writing the buffer without the header the tokens were counted
\* with
Buf_Write_WithoutHeader ==
    /\ mode = "buffered"
    /\ pc = "write"
    /\ out' = Tail(xmlBuffer)
    /\ xmlBuffer' = <<>>
    /\ result' = "nil"
    /\ pc' = "done"
    /\ UNCHANGED <<mode, tree, cfg, absTargetDir, todo, stats, last, faults, runNo, firstOut>>
    /\ UNCHANGED depVars
    /\ UNCHANGED tokVars
    /\ UNCHANGED notRunVars

\* xmlBuffer.WriteTo(writer) writes the whole buffer
Buf_Write ==
    /\ mode = "buffered"
    /\ pc = "write"
    /\ out' = xmlBuffer
    /\ xmlBuffer' = <<>>
    /\ result' = "nil"
    /\ pc' = "done"
    /\ UNCHANGED <<mode, tree, cfg, absTargetDir, todo, stats, last, faults, runNo, firstOut>>
    /\ UNCHANGED depVars
    /\ UNCHANGED tokVars
    /\ UNCHANGED notRunVars

\* xmlBuffer.WriteTo(writer) fails after some of the buffer was written
Buf_WriteError ==
    /\ mode = "buffered"
    /\ pc = "write"
    /\ faults < MaxFaults
    /\ \E k \in 0..(Len(xmlBuffer) - 1) :
        /\ out' = SubSeq(xmlBuffer, 1, k)
        /\ xmlBuffer' = SubSeq(xmlBuffer, k + 1, Len(xmlBuffer))
    /\ faults' = faults + 1
    /\ result' = "write_output"
    /\ pc' = "done"
    /\ UNCHANGED <<mode, tree, cfg, absTargetDir, todo, stats, last, runNo, firstOut>>
    /\ UNCHANGED depVars
    /\ UNCHANGED tokVars
    /\ UNCHANGED notRunVars

---------------------------------------------------------------------------
(* StreamProcessor                                                         *)

\* what an abort of ProcessDirectory leaves alone
SPKeeps ==
    /\ UNCHANGED <<mode, tree, cfg, absTargetDir, stats, xmlBuffer, runNo, firstOut>>
    /\ UNCHANGED depVars
    /\ UNCHANGED tokVars
    /\ UNCHANGED notRunVars

\* strings.Trim(s, cutset)
TrimCutset(s, cutset) ==
    LET keep == { i \in 1..Len(s) : s[i] \notin cutset } IN
    IF keep = {} THEN <<>>
    ELSE SubSeq(s, CHOOSE i \in keep : \A j \in keep : i <= j,
                   CHOOSE i \in keep : \A j \in keep : j <= i)

IMPORT_PREFIX == <<"i","m","p","o","r","t"," ">>

RECURSIVE ContextImports(_)
\* analyzeContext: the lines that start with "import ", without the prefix
\* and trimmed of quotes and spaces
ContextImports(lines) ==
    IF lines = <<>> THEN <<>>
    ELSE (IF HasPrefix(Head(lines), IMPORT_PREFIX)
          THEN << TrimCutset(SubSeq(Head(lines), Len(IMPORT_PREFIX) + 1, Len(Head(lines))),
                             { "\"", "'", " " }) >>
          ELSE <<>>)
            \o ContextImports(Tail(lines))

\* filepath.Rel(".", path), and path itself when Rel fails, as it does for
\* an absolute path
RelDot(path) == IF IsAbs(path) THEN path ELSE Clean(path)

\* the walk function is about to be called with a file isExcluded lets through
SPAtFile ==
    /\ mode = "sp"
    /\ pc = "walk"
    /\ todo # <<>>
    /\ ~NodeAt(tree, Head(todo)).dir
    /\ ~isExcluded(Head(todo))

\* ProcessDirectory(dir, w) up to the call of filepath.Walk
SP_Start ==
    /\ mode = "sp"
    /\ pc = "start"
    /\ out' = DocStart
    /\ todo' = << cfg.targetDir >>
    /\ pc' = "walk"
    /\ UNCHANGED <<result, last, faults>>
    /\ SPKeeps

\* the write of the header fails
SP_StartError ==
    /\ mode = "sp"
    /\ pc = "start"
    /\ faults < MaxFaults
    /\ faults' = faults + 1
    /\ result' = "write_header"
    /\ pc' = "done"
    /\ UNCHANGED <<todo, out, last>>
    /\ SPKeeps

\* processPath called with err != nil returns it, which ends the walk
SP_AccessError ==
    /\ mode = "sp"
    /\ pc = "walk"
    /\ todo # <<>>
    /\ faults < MaxFaults
    /\ faults' = faults + 1
    /\ last' = Entry(Head(todo), "access_error")
    /\ todo' = <<>>
    /\ result' = "access"
    /\ pc' = "done"
    /\ UNCHANGED out
    /\ SPKeeps

\* a directory: processPath returns nil and the walk descends
SP_Dir ==
    /\ mode = "sp"
    /\ pc = "walk"
    /\ todo # <<>>
    /\ NodeAt(tree, Head(todo)).dir
    /\ todo' = ChildPaths(tree, Head(todo)) \o Tail(todo)
    /\ last' = Entry(Head(todo), "dir")
    /\ UNCHANGED <<out, result, faults, pc>>
    /\ SPKeeps

\* a file isExcluded excludes
SP_Skip ==
    /\ mode = "sp"
    /\ pc = "walk"
    /\ todo # <<>>
    /\ ~NodeAt(tree, Head(todo)).dir
    /\ isExcluded(Head(todo))
    /\ todo' = Tail(todo)
    /\ last' = Entry(Head(todo), "skipped")
    /\ UNCHANGED <<out, result, faults, pc>>
    /\ SPKeeps

\* processFile: os.Open fails
SP_OpenError ==
    /\ SPAtFile
    /\ faults < MaxFaults
    /\ faults' = faults + 1
    /\ last' = Entry(Head(todo), "open_error")
    /\ todo' = <<>>
    /\ result' = "open"
    /\ pc' = "done"
    /\ UNCHANGED out
    /\ SPKeeps

\* processFile: a scan or the seek fails after the start of the element
\* was written
SP_ReadError ==
    /\ SPAtFile
    /\ faults < MaxFaults
    /\ \E kind \in { "read", "seek" } : result' = kind
    /\ faults' = faults + 1
    /\ out' = Append(out, Fragment(RelDot(Head(todo))))
    /\ last' = Entry(Head(todo), "read_error")
    /\ todo' = <<>>
    /\ pc' = "done"
    /\ SPKeeps

\* processFile writes the element
SP_File ==
    /\ SPAtFile
    /\ out' = Append(out, SPElem(RelDot(Head(todo)), FileSize(tree, Head(todo)),
                                 NodeAt(tree, Head(todo)).lines,
                                 ContextImports(ScanLines(RenderLines(NodeAt(tree, Head(todo)).lines)))))
    /\ todo' = Tail(todo)
    /\ last' = Entry(Head(todo), "emitted")
    /\ UNCHANGED <<result, faults, pc>>
    /\ SPKeeps

\* after the walk: the footer
SP_Finish ==
    /\ mode = "sp"
    /\ pc = "walk"
    /\ todo = <<>>
    /\ out' = Append(out, Marker("close"))
    /\ result' = "nil"
    /\ pc' = "done"
    /\ UNCHANGED <<todo, last, faults>>
    /\ SPKeeps

\* the write of the footer fails
SP_FinishError ==
    /\ mode = "sp"
    /\ pc = "walk"
    /\ todo = <<>>
    /\ faults < MaxFaults
    /\ faults' = faults + 1
    /\ result' = "write_footer"
    /\ pc' = "done"
    /\ UNCHANGED <<todo, out, last>>
    /\ SPKeeps

---------------------------------------------------------------------------
(* A second run                                                            *)

\* the buffered pipeline is started again with the same Config over the same
\* tree, after a first run that met no failure
Rerun ==
    /\ mode = "buffered"
    /\ pc = "done"
    /\ runNo = 1
    /\ result = "nil"
    /\ faults = 0
    /\ firstOut' = out
    /\ runNo' = 2
    /\ pc' = "start"
    /\ absTargetDir' = <<>>
    /\ todo' = <<>>
    /\ stats' = ZeroStats
    /\ out' = <<>>
    /\ xmlBuffer' = <<>>
    /\ result' = "none"
    /\ last' = NoEntry
    /\ daTargetDir' = <<>>
    /\ fileMap' = EmptyMap
    /\ daErr' = "none"
    /\ daRuns' = 0
    /\ tcCount' = 0
    /\ tcSum' = 0
    /\ tcCalls' = 0
    /\ tcLast' = NoTokCall
    /\ UNCHANGED <<mode, tree, cfg, faults>>
    /\ UNCHANGED notRunVars

\* the steps the two versions of processFiles share
WalkNext ==
    \/ PF_Start
    \/ PF_AbsError
    \/ PF_AccessError
    \/ PF_Dir
    \/ PF_Skip
    \/ PF_TooLarge
    \/ PF_EntryError

StreamNext ==
    \/ Stream_Encode
    \/ Stream_EncodeError
    \/ Stream_Finish

BufNext ==
    \/ Buf_Register
    \/ Buf_Analyze
    \/ Buf_Serialize
    \/ Buf_Write
    \/ Buf_WriteError

SPNext ==
    \/ SP_Start
    \/ SP_StartError
    \/ SP_AccessError
    \/ SP_Dir
    \/ SP_Skip
    \/ SP_OpenError
    \/ SP_ReadError
    \/ SP_File
    \/ SP_Finish
    \/ SP_FinishError

\* one run of one of the three pipelines
Next ==
    \/ WalkNext
    \/ StreamNext
    \/ BufNext
    \/ SPNext

\* the buffered pipeline, run twice
TwoRunNext ==
    \/ WalkNext
    \/ BufNext
    \/ Rerun

---------------------------------------------------------------------------
(* main, around the buffered processFiles                                  *)

\* the output files main is started with: the default, one in a
\* subdirectory, one without extension
OutputFiles ==
    { <<"o","u","t","p","u","t",".","x","m","l">>,
      <<"d","/","o",".","t",".","x">>,
      <<"o","u","t">> }

\* main has not been started
MainIdle ==
    /\ mStage = "idle"
    /\ mOutputFile = <<>>
    /\ mOpen = FALSE
    /\ mPath = <<>>

\* main has parsed its arguments
MainStart ==
    /\ mStage = "start"
    /\ mOutputFile \in OutputFiles
    /\ mOpen = FALSE
    /\ mPath = <<>>

\* the name main gives the output file, with the separator between the
\* count and the base name left out
newName_NoSeparator(tokens, outputFile) ==
    LET ext == Ext(outputFile)
        base == TrimSuffix(Base(outputFile), ext)
    IN Itoa(tokens) \o base \o ext

\* fmt.Sprintf("%d-%s%s", stats.tokens, base, ext)
newName(tokens, outputFile) ==
    LET ext == Ext(outputFile)
        base == TrimSuffix(Base(outputFile), ext)
    IN Itoa(tokens) \o <<"-">> \o base \o ext

\* filepath.Join(dir, newName)
newPath(tokens, outputFile) ==
    Join(Dir(outputFile), newName(tokens, outputFile))

\* setupOutput(config) returns a writer on config.outputFile and its cleanup
Main_SetupOutput ==
    /\ mStage = "start"
    /\ mStage' = "opened"
    /\ mOpen' = TRUE
    /\ mPath' = mOutputFile
    /\ UNCHANGED mOutputFile
    /\ UNCHANGED notMainVars

\* setupOutput fails: os.Exit(1)
Main_SetupOutputError ==
    /\ mStage = "start"
    /\ mStage' = "exit1"
    /\ UNCHANGED <<mOutputFile, mOpen, mPath>>
    /\ UNCHANGED notMainVars

\* processFiles(config, writer) at work
Main_ProcessFiles ==
    /\ mStage = "opened"
    /\ WalkNext \/ BufNext

\* processFiles returned an error: cleanup(), os.Exit(1)
Main_ProcessError ==
    /\ mStage = "opened"
    /\ pc = "done"
    /\ result # "nil"
    /\ mOpen' = FALSE
    /\ mStage' = "exit1"
    /\ UNCHANGED <<mOutputFile, mPath>>
    /\ UNCHANGED notMainVars

\* processFiles returned nil: cleanup() closes the file before the rename
Main_Cleanup ==
    /\ mStage = "opened"
    /\ pc = "done"
    /\ result = "nil"
    /\ mOpen' = FALSE
    /\ mStage' = "closed"
    /\ UNCHANGED <<mOutputFile, mPath>>
    /\ UNCHANGED notMainVars

\* os.Rename(config.outputFile, newPath)
Main_Rename ==
    /\ mStage = "closed"
    /\ mPath' = newPath(stats.tokens, mOutputFile)
    /\ mStage' = "renamed"
    /\ UNCHANGED <<mOutputFile, mOpen>>
    /\ UNCHANGED notMainVars

\* os.Rename fails: os.Exit(1)
Main_RenameError ==
    /\ mStage = "closed"
    /\ mStage' = "exit1"
    /\ UNCHANGED <<mOutputFile, mOpen, mPath>>
    /\ UNCHANGED notMainVars

MainNext ==
    \/ Main_SetupOutput
    \/ Main_SetupOutputError
    \/ Main_ProcessFiles
    \/ Main_ProcessError
    \/ Main_Cleanup
    \/ Main_Rename
    \/ Main_RenameError

---------------------------------------------------------------------------
(* The file handle of the walk functions, statement by statement           *)

\* the most files one walk hands to its function
MaxHandleFiles == 2

HandleFiles == { Join(P_r, N_a_js), Join(P_r, N_b_js), Join(P_r, N_m_js) }

\* what a walk function does with the file it opened, in order: processFiles
\* copies it and encodes or registers the record; processFile reads the
\* imports, seeks back and scans the lines
Stages(m) ==
    IF m = "stream" THEN <<"copy", "encode">>
    ELSE IF m = "buffered" THEN <<"copy", "register">>
    ELSE <<"context", "seek", "scan">>

\* the stages that can fail: registering a record cannot
Fallible == { "copy", "encode", "context", "seek", "scan" }

\* the stage that follows st in the function of m, "return" after the last
StageAfter(m, st) ==
    LET i == CHOOSE i \in 1..Len(Stages(m)) : Stages(m)[i] = st
    IN IF i = Len(Stages(m)) THEN "return" ELSE Stages(m)[i + 1]

\* no walk is watched
HandleIdle ==
    /\ hMode = "none"
    /\ hTodo = <<>>
    /\ hStage = "idle"
    /\ hOpen = {}
    /\ hLast = "none"

\* a walk is about to hand its first file to the function
HandleStart ==
    /\ hMode \in Modes
    /\ hTodo \in { o \in SeqsUpTo(HandleFiles, MaxHandleFiles) :
                      \A i, j \in 1..Len(o) : i # j => o[i] # o[j] }
    /\ hStage = "call"
    /\ hOpen = {}
    /\ hLast = "none"

\* file, err := os.Open(path); defer file.Close()
H_Open ==
    /\ hStage = "call"
    /\ hTodo # <<>>
    /\ hOpen' = hOpen \cup { Head(hTodo) }
    /\ hStage' = "opened"
    /\ UNCHANGED <<hMode, hTodo, hLast>>
    /\ UNCHANGED notHandleVars

\* os.Open fails: the function returns before a Close is deferred;
\* processFile returns the error, which ends the walk
H_OpenError ==
    /\ hStage = "call"
    /\ hTodo # <<>>
    /\ hTodo' = IF hMode = "sp" THEN <<>> ELSE Tail(hTodo)
    /\ hLast' = "open"
    /\ UNCHANGED <<hMode, hStage, hOpen>>
    /\ UNCHANGED notHandleVars

\* the next statement that uses the file succeeds
H_Stage ==
    /\ hStage \notin { "idle", "call", "return" }
    /\ hStage' = IF hStage = "opened" THEN Stages(hMode)[1]
                  ELSE StageAfter(hMode, hStage)
    /\ UNCHANGED <<hMode, hTodo, hOpen, hLast>>
    /\ UNCHANGED notHandleVars

\* a return with an error from a failing stage whose deferred Close leaves
\* the file open
H_StageError_LeaksHandle ==
    /\ hStage \in Fallible
    /\ hTodo' = IF hMode = "sp" THEN <<>> ELSE Tail(hTodo)
    /\ hStage' = "call"
    /\ hLast' = hStage
    /\ UNCHANGED <<hMode, hOpen>>
    /\ UNCHANGED notHandleVars

\* the stage reached fails: the function returns, the deferred Close runs;
\* processFiles returns nil, processFile the error, which ends the walk
H_StageError ==
    /\ hStage \in Fallible
    /\ hOpen' = hOpen \ { Head(hTodo) }
    /\ hTodo' = IF hMode = "sp" THEN <<>> ELSE Tail(hTodo)
    /\ hStage' = "call"
    /\ hLast' = hStage
    /\ UNCHANGED hMode
    /\ UNCHANGED notHandleVars

\* return nil after the last stage: the deferred Close runs
H_Return ==
    /\ hStage = "return"
    /\ hOpen' = hOpen \ { Head(hTodo) }
    /\ hTodo' = Tail(hTodo)
    /\ hStage' = "call"
    /\ hLast' = "nil"
    /\ UNCHANGED hMode
    /\ UNCHANGED notHandleVars

HandleNext ==
    \/ H_Open
    \/ H_OpenError
    \/ H_Stage
    \/ H_StageError
    \/ H_Return

\* C27: whenever the walk is about to hand an entry to the walk function no
\* file is open, and at no time is more than one file open: the handle is
\* closed on every way out of the function, after a success as after a
\* failing read or a failing encode.
C27_NoHandleAcrossEntries ==
    /\ Cardinality(hOpen) <= 1
    /\ hStage = "call" => hOpen = {}
    /\ hStage \notin { "idle", "call" } => hOpen = { Head(hTodo) }

\* after a call that ended with a failing encode the next file is open, and
\* it is the only one
C27_WitnessClosedAfterFailure ==
    /\ hMode = "stream"
    /\ hLast = "encode"
    /\ hStage = "opened"
    /\ hOpen = { Head(hTodo) }

---------------------------------------------------------------------------
(* Properties of the pipelines                                             *)

\* C4: when the walk of processFiles is at a file that passed the path
\* filter and whose size exceeds a positive maxFileSize, the step that
\* handles the entry adds no file element to the output (nor a record to the
\* registry the output is written from), increments Stats.errors by exactly
\* one and leaves Stats.filesProc and Stats.bytesProc unchanged.
C4_OversizeAddsOneError ==
    [][ (AtFile /\ ExceedsLimit(FileSize(tree, Head(todo)), cfg))
            => /\ out' = out
               /\ fileMap' = fileMap
               /\ stats'.errors = stats.errors + 1
               /\ stats'.filesProc = stats.filesProc
               /\ stats'.bytesProc = stats.bytesProc ]_vars

\* a file was processed and the next one, over the limit, was skipped
C4_WitnessOversizeSkipped ==
    /\ mode \in PF
    /\ last.outcome = "too_large"
    /\ stats.errors = 1
    /\ stats.filesProc = 1

\* the ways the handling of one entry fails
EntryFailures == { "too_large", "rel_error", "open_error", "read_error", "encode_error" }

\* what C9 says of a step in which the handling of an entry fails
FailureIsSkipped ==
    /\ stats' = CountError(stats)
    /\ FileElems(out') = FileElems(out)
    /\ fileMap' = fileMap
    /\ todo' = Tail(todo)
    /\ pc' = pc
    /\ result' = result

\* C9: in every pipeline, a step in which opening, reading, size-checking,
\* relativizing or encoding an entry fails increments Stats.errors by one,
\* adds no file element, and leaves the walk with the entries that were
\* still to come, the run going on as it would have without the entry.
C9_EntryFailureIsSkipped ==
    [][ (last' # last /\ last'.outcome \in EntryFailures) => FailureIsSkipped ]_vars

\* C9, for the two versions of processFiles only.
C9_ProcessFilesEntryFailureIsSkipped ==
    [][ (mode \in PF /\ last' # last /\ last'.outcome \in EntryFailures)
            => FailureIsSkipped ]_vars

\* the errors that come from the setup of a run: the root cannot be
\* resolved, the destination cannot be written
SetupFailures == { "abs", "write_output", "write_header", "write_footer" }

\* C10: the error an entry point returns is nil or a setup failure, never
\* the failure of a single entry.
C10_OnlySetupFailuresReturned ==
    result \notin { "none", "nil" } => result \in SetupFailures

\* C10, for the two versions of processFiles only.
C10_ProcessFilesOnlySetupFailures ==
    (mode \in PF /\ result \notin { "none", "nil" }) => result \in SetupFailures

\* C6: a second run of the buffered pipeline with the same Config over the
\* same tree, neither run meeting a failure, hands the destination the
\* document of the first run: the same file elements in the same order,
\* with the same imported-by lists.
C6_SecondRunIdentical ==
    (runNo = 2 /\ pc = "done" /\ result = "nil" /\ faults = 0) => out = firstOut

\* C6, weakened to what does not depend on the order of a range over a map:
\* both runs write elements for the same files.
C6_SecondRunSameFiles ==
    (runNo = 2 /\ pc = "done" /\ result = "nil" /\ faults = 0)
        => { out[i].name : i \in FileElems(out) }
                = { firstOut[i].name : i \in FileElems(firstOut) }

\* the file element of a document with the name given
ElemNamed(doc, name) == doc[CHOOSE i \in FileElems(doc) : doc[i].name = name]

\* the buffered pipeline has ended a run that met no failure and collected
\* exactly the files a and b of the root
CollectedOnly(a, b) ==
    /\ mode = "buffered"
    /\ pc = "done"
    /\ result = "nil"
    /\ faults = 0
    /\ DOMAIN fileMap = { Join(absTargetDir, a), Join(absTargetDir, b) }

\* the document holds two file elements, b's with one import, of type
\* local, and a's with one imported-by entry, which references b
OneEdgeFromTo(b, a) ==
    /\ Cardinality(FileElems(out)) = 2
    /\ \E i \in FileElems(out) : out[i].name = a
    /\ \E i \in FileElems(out) : out[i].name = b
    /\ ~ElemNamed(out, b).deps.nil
    /\ Len(ElemNamed(out, b).deps.Imports) = 1
    /\ ElemNamed(out, b).deps.Imports[1].Type = "local"
    /\ ~ElemNamed(out, a).deps.nil
    /\ Len(ElemNamed(out, a).deps.ImportedBy) = 1
    /\ ElemNamed(out, a).deps.ImportedBy[1].Path = Join(absTargetDir, b)

ElemPath(e) == IF mode = "sp" THEN e.name ELSE Join(absTargetDir, e.name)

\* the exclusion gate of the pipeline that runs
GateExcludes(path) ==
    IF mode = "sp" THEN isExcluded(path) ELSE isExcludedPath(path, cfg)

\* what C11 says of one file element
PassedGates(e) ==
    /\ ~GateExcludes(ElemPath(e))
    /\ isFileMatch(ElemPath(e), cfg)
    /\ ~ExceedsLimit(e.size, cfg)

\* C11: in every run of every pipeline, each file element the destination
\* has received stands for a file the exclusion gate did not exclude, that
\* isFileMatch accepted, and whose size did not exceed a positive
\* maxFileSize.
C11_OutputPassedGates ==
    \A i \in FileElems(out) : PassedGates(out[i])

\* C11, for the two versions of processFiles only.
C11_ProcessFilesOutputPassedGates ==
    mode \in PF => \A i \in FileElems(out) : PassedGates(out[i])

\* a complete file element that carries a name attribute holding a
\* root-relative path, and a size attribute
NamedElem(e) ==
    /\ e.kind = "file"
    /\ e.attr = "name"
    /\ ~IsAbs(e.name)

\* the document of C12: the header, the opening tag, complete file elements,
\* the closing tag, each of the three markers once and in this order
WellFormedDoc(doc) ==
    /\ Len(doc) >= 3
    /\ doc[1].kind = "header"
    /\ doc[2].kind = "open"
    /\ doc[Len(doc)].kind = "close"
    /\ \A i \in 3..(Len(doc) - 1) : NamedElem(doc[i])

\* C12: whenever a run of any pipeline has returned to its caller, the
\* destination has received the header, the opening root tag, complete file
\* elements with a root-relative name and a size attribute, and the closing
\* root tag, in this order, whatever per-entry errors occurred.
C12_ReturnedRunWroteDocument ==
    pc = "done" => WellFormedDoc(out)

\* C12, for the runs of the buffered processFiles that return nil.
C12_BufferedRunWroteDocument ==
    (mode = "buffered" /\ pc = "done" /\ result = "nil") => WellFormedDoc(out)

\* the root the walk was started on
WalkRoot == IF mode = "sp" THEN cfg.targetDir ELSE absTargetDir

\* the directories the walk reaches on its way to path: the root and every
\* directory between the root and path
DirsAbove(path) ==
    { SubSeq(path, 1, n) : n \in { n \in Len(WalkRoot)..(Len(path) - 1) :
                                     /\ HasPrefix(path, WalkRoot)
                                     /\ path[n + 1] = SLASH } }

\* path lies in the subtree of a directory that the gate of the running
\* pipeline excludes
InExcludedDir(path) ==
    \E d \in DirsAbove(path) : GateExcludes(d)

\* C14: no entry inside the subtree of a directory that the exclusion gate
\* excludes is handed to the walk function, and none has an element in the
\* output, in any of the three pipelines.
C14_ExcludedDirIsPruned ==
    /\ last # NoEntry => ~InExcludedDir(last.path)
    /\ \A i \in FileElems(out) : ~InExcludedDir(ElemPath(out[i]))

\* C14, for the two versions of processFiles only.
C14_ProcessFilesExcludedDirIsPruned ==
    mode \in PF =>
        /\ last # NoEntry => ~InExcludedDir(last.path)
        /\ \A i \in FileElems(out) : ~InExcludedDir(ElemPath(out[i]))

\* C16 (as claimed): after the rename the output file is found, in the
\* directory of config.outputFile, under the decimal form of Stats.tokens
\* followed directly by the base name and the extension.
C16_RenamedToCountBaseExt ==
    mStage = "renamed" =>
        mPath = Join(Dir(mOutputFile),
                     Itoa(stats.tokens)
                        \o TrimSuffix(Base(mOutputFile), Ext(mOutputFile))
                        \o Ext(mOutputFile))

\* C16 (amended): after the rename the output file is found, in the
\* directory of config.outputFile, under the decimal form of Stats.tokens,
\* a hyphen, the base name without its extension, and the extension; the
\* rename happens only after processFiles returned nil and the file was
\* closed.
C16_RenamedToCountHyphenBaseExt ==
    /\ mStage = "renamed" =>
          /\ mPath = Join(Dir(mOutputFile),
                          Itoa(stats.tokens) \o <<"-">>
                             \o TrimSuffix(Base(mOutputFile), Ext(mOutputFile))
                             \o Ext(mOutputFile))
          /\ stats.tokens = CountTokens(DocText(out))
          /\ result = "nil"
          /\ ~mOpen
    /\ (mPath # <<>> /\ mPath # mOutputFile) => mStage = "renamed"

\* the output file of a run over two collected files, written to
\* d/o.t.x, has been renamed
C16_WitnessRenamed ==
    /\ mStage = "renamed"
    /\ mOutputFile = <<"d","/","o",".","t",".","x">>
    /\ stats.filesProc = 2
    /\ Dir(mPath) = <<"d">>
    /\ Ext(mPath) = <<".","x">>

\* the registered records whose imports have been extracted
Extracted(fm) == { k \in DOMAIN fm : ~fm[k].Dependencies.nil }

\* C17: when the extraction of AnalyzeDependencies failed on a file, the
\* linking phase has still run over the records: every local edge of an
\* extracted record that resolves to a registered record has its
\* imported-by entry there.
C17_LinkingRunsDespiteFailure ==
    daErr = "error" =>
        \A A \in Extracted(fileMap), B \in DOMAIN fileMap :
            Cardinality(ImportedByRefs(fileMap, A, B))
                = Cardinality(ResolvingEdges(fileMap, A, B, daTargetDir))

\* C17, what the analyzer does instead: after a first AnalyzeDependencies
\* that returned an error no record holds an imported-by entry, whatever
\* edges were extracted before the failure.
C17_FailedAnalysisLinksNothing ==
    (daErr = "error" /\ daRuns = 1) =>
        \A B \in DOMAIN fileMap : fileMap[B].Dependencies.ImportedBy = <<>>

\* the imported-by entries of the registered records
ImportedByEntries(fm) ==
    UNION { { fm[B].Dependencies.ImportedBy[i] :
                i \in 1..Len(fm[B].Dependencies.ImportedBy) } : B \in DOMAIN fm }

\* C18: every imported-by entry of a buffered run carries the name of a
\* registered record, the root-relative path its element shows in the name
\* attribute, and the type local.
C18_ImportedByNamesImporter ==
    \A e \in ImportedByEntries(fileMap) :
        /\ e.Path \in { fileMap[A].Name : A \in DOMAIN fileMap }
        /\ e.Type = "local"

\* C18, with the importer identified by the path it was registered under:
\* every imported-by entry carries the registry key of a record with a local
\* edge, which is the absolute path the walk found the file at, and the type
\* local.
C18_ImportedByHoldsRegistryKey ==
    \A e \in ImportedByEntries(fileMap) :
        /\ e.Path \in Extracted(fileMap)
        /\ e.Path # fileMap[e.Path].Name
        /\ \E i \in 1..Len(fileMap[e.Path].Dependencies.Imports) :
              fileMap[e.Path].Dependencies.Imports[i].Type = "local"
        /\ e.Type = "local"

\* how many times the entry e occurs in the list
Occurrences(list, e) == Cardinality({ i \in 1..Len(list) : list[i] = e })

\* the imported-by lists of fm1 and fm2 hold the same entries the same
\* number of times, record by record
SameImportedBy(fm1, fm2) ==
    /\ DOMAIN fm1 = DOMAIN fm2
    /\ \A B \in DOMAIN fm1 :
          /\ Len(fm1[B].Dependencies.ImportedBy) = Len(fm2[B].Dependencies.ImportedBy)
          /\ \A e \in ImportedByEntries(fm1) \cup ImportedByEntries(fm2) :
                Occurrences(fm1[B].Dependencies.ImportedBy, e)
                    = Occurrences(fm2[B].Dependencies.ImportedBy, e)

\* C19: an AnalyzeDependencies that runs through after an earlier one ran
\* through leaves every record with the collection of imported-by entries
\* the earlier one left: nothing accumulates.
C19_SecondAnalysisSameImportedBy ==
    [][(daRuns >= 1 /\ daRuns' = daRuns + 1 /\ daErr = "nil" /\ daErr' = "nil")
          => SameImportedBy(fileMap, fileMap')]_vars

\* after two analyses a record that no analyzer reads holds the one
\* imported-by entry of its importer
C19_WitnessLinkedTwice ==
    /\ daRuns = 2
    /\ daErr = "nil"
    /\ \E B \in DOMAIN fileMap :
          /\ ToLower(Ext(B)) = <<".","t","x","t">>
          /\ Len(fileMap[B].Dependencies.ImportedBy) = 1

\* the registry as the extraction loop of AnalyzeDependencies leaves it when
\* every file can be read, before linkDependencies is called
AfterExtraction ==
    ExtractLoop(CHOOSE o \in Orders(DOMAIN fileMap) : TRUE,
                fileMap, daTargetDir, {}).fm

\* the local edges of the registered records that resolve to B
EdgesInto(fm, B, targetDir) ==
    UNION { { <<A, i>> : i \in ResolvingEdges(fm, A, B, targetDir) } : A \in DOMAIN fm }

\* the local edges of the registered records that resolve to no record
UnresolvedEdges(fm, targetDir) ==
    UNION { { <<A, i>> : i \in { i \in 1..Len(fm[A].Dependencies.Imports) :
                /\ fm[A].Dependencies.Imports[i].Type = "local"
                /\ Join(targetDir, fm[A].Dependencies.Imports[i].Path)
                      \notin DOMAIN fm } } : A \in DOMAIN fm }

\* the step of the buffered processFiles that analyzes the registry, every
\* file being readable
AnalysisStep ==
    /\ mode = "buffered"
    /\ pc = "walk"
    /\ pc' = "serialize"
    /\ faults' = faults

\* C20: the linking of a buffered run returns no error, changes no Stats
\* counter, and leaves every record's name, size, content and outbound
\* imports as the extraction left them, unresolved local edges included;
\* each record's imported-by list has one entry per local edge resolving to
\* it, so an edge that does not resolve adds none.
C20_LinkingKeepsRecords ==
    [][AnalysisStep =>
          /\ daErr' = "nil"
          /\ stats' = stats
          /\ DOMAIN fileMap' = DOMAIN fileMap
          /\ \A k \in DOMAIN fileMap :
                /\ fileMap'[k].Name = fileMap[k].Name
                /\ fileMap'[k].Size = fileMap[k].Size
                /\ fileMap'[k].Content = fileMap[k].Content
                /\ fileMap'[k].Dependencies.Imports
                      = AfterExtraction[k].Dependencies.Imports
                /\ Len(fileMap'[k].Dependencies.ImportedBy)
                      = Cardinality(EdgesInto(fileMap', k, daTargetDir))]_vars

\* a buffered run without failures has linked a registry in which a local
\* edge resolves to no record and another resolves to one
C20_WitnessUnresolvedEdgeKept ==
    /\ mode = "buffered"
    /\ pc = "serialize"
    /\ faults = 0
    /\ daErr = "nil"
    /\ UnresolvedEdges(fileMap, daTargetDir) # {}
    /\ \E B \in DOMAIN fileMap : EdgesInto(fileMap, B, daTargetDir) # {}

\* the registered records of the Go family and of the JavaScript family
\* whose imports have been extracted
GoRecords(fm) == { k \in Extracted(fm) : ToLower(Ext(k)) = <<".","g","o">> }
JSRecords(fm) == { k \in Extracted(fm) : ToLower(Ext(k)) \in JSExts }

\* the imports of the records in K
ImportsOf(fm, K) ==
    UNION { { fm[k].Dependencies.Imports[i] :
                i \in 1..Len(fm[k].Dependencies.Imports) } : k \in K }

\* the rule of C21: the root prefix makes an import local, else a separator
\* or a dot makes it external, else it is standard
RootPrefixRule(imp, targetDir) ==
    imp.Type = IF HasPrefix(imp.Path, targetDir) THEN "local"
               ELSE IF Contains(imp.Path, <<SLASH>>) \/ Contains(imp.Path, <<DOT>>)
                    THEN "external"
               ELSE "standard"

\* the rule the JavaScript family follows: a leading dot makes an import
\* local, else the absence of a separator makes it standard, else it is
\* external
LeadingDotRule(imp) ==
    imp.Type = IF HasPrefix(imp.Path, <<DOT>>) THEN "local"
               ELSE IF ~Contains(imp.Path, <<SLASH>>) THEN "standard"
               ELSE "external"

\* C21 (as claimed): every import extracted from a Go or a
\* JavaScript/TypeScript file is local if it begins with the root prefix,
\* else external if it holds a separator or a dot, else standard.
C21_RootPrefixClassifies ==
    \A imp \in ImportsOf(fileMap, GoRecords(fileMap) \cup JSRecords(fileMap)) :
        RootPrefixRule(imp, daTargetDir)

\* C21 (amended): every import extracted from a Go file follows the root
\* prefix rule; every import extracted from a JavaScript/TypeScript file is
\* local if it begins with ".", else standard if it holds no separator,
\* else external.
C21_GoByRootPrefixJSByLeadingDot ==
    /\ \A imp \in ImportsOf(fileMap, GoRecords(fileMap)) :
          RootPrefixRule(imp, daTargetDir)
    /\ \A imp \in ImportsOf(fileMap, JSRecords(fileMap)) : LeadingDotRule(imp)

\* a Go record holds an import made local by the root prefix while a
\* JavaScript record holds a standard import with a dot in it
C21_WitnessBothFamilies ==
    /\ \E imp \in ImportsOf(fileMap, GoRecords(fileMap)) :
          imp.Type = "local" /\ Contains(imp.Path, <<SLASH>>)
    /\ \E imp \in ImportsOf(fileMap, JSRecords(fileMap)) :
          imp.Type = "standard" /\ Contains(imp.Path, <<DOT>>)

\* the registered records of the Python family whose imports have been
\* extracted
PyRecords(fm) == { k \in Extracted(fm) : ToLower(Ext(k)) = <<".","p","y">> }

\* the lines of the file at path that are written import X or from X import
PyImportLines(path) ==
    { i \in 1..Len(Disk(path)) : Disk(path)[i].form \in { "py_import", "py_from" } }

\* "local" for a dotted module path, "standard" for any other
DottedRule(modulePath) ==
    IF Contains(modulePath, <<DOT>>) THEN "local" ELSE "standard"

\* C22: for every line import X or from X import of an analyzed Python file
\* the record holds an import taken from X that is local if X, as written,
\* contains a dot, and standard otherwise.
C22_DottedModuleIsLocal ==
    \A k \in PyRecords(fileMap) : \A i \in PyImportLines(k) :
        \E imp \in ImportsOf(fileMap, {k}) :
            /\ HasPrefix(Disk(k)[i].arg, imp.Path)
            /\ imp.Type = DottedRule(Disk(k)[i].arg)

\* C22, for what the patterns capture: every import of an analyzed Python
\* file is local exactly when its recorded path contains a dot, and a line
\* from X import is recorded with the whole of X.
C22_CapturedPathDecides ==
    \A k \in PyRecords(fileMap) :
        /\ \A imp \in ImportsOf(fileMap, {k}) : imp.Type = DottedRule(imp.Path)
        /\ \A i \in PyImportLines(k) :
              Disk(k)[i].form = "py_from" =>
                 ImportDependency(Disk(k)[i].arg, DottedRule(Disk(k)[i].arg))
                    \in ImportsOf(fileMap, {k})

\* how the walk function of processFiles leaves an entry it skips silently:
\* an excluded directory, an excluded or unselected file
SilentSkips == { "skipdir", "skipped" }

\* C23: a step of processFiles that skips an entry because the exclusion
\* gate excludes it or the selection gate rejects it leaves all four Stats
\* counters as they were and adds nothing to the output, to the buffer it is
\* serialized into or to the registry it is written from.
C23_SilentSkipChangesNothing ==
    [][ (mode \in PF /\ last' # last /\ last'.outcome \in SilentSkips)
            => /\ stats' = stats
               /\ out' = out
               /\ xmlBuffer' = xmlBuffer
               /\ fileMap' = fileMap ]_vars

\* after two files were collected an excluded directory has been skipped,
\* and no error is counted
C23_WitnessSkippedAfterCollected ==
    /\ mode \in PF
    /\ last.outcome = "skipdir"
    /\ stats.filesProc = 2
    /\ stats.errors = 0

\* C24: processFiles skips a file for its size only when maxFileSize is
\* positive and the file is strictly larger: with maxFileSize zero or
\* negative no file is skipped for its size, and a file of exactly
\* maxFileSize bytes is not.
C24_SkippedOnlyAbovePositiveLimit ==
    [][ (mode \in PF /\ last' # last /\ last'.outcome = "too_large")
            => /\ cfg.maxFileSize > 0
               /\ FileSize(tree, last'.path) > cfg.maxFileSize ]_vars

\* C24, the other direction: a file that reaches the size test with a size
\* within a positive limit, or under a limit that is zero or negative, is
\* never left as too large.
C24_WithinLimitNeverSkipped ==
    [][ (AtFile /\ (cfg.maxFileSize <= 0
                     \/ FileSize(tree, Head(todo)) <= cfg.maxFileSize))
            => last'.outcome # "too_large" ]_vars

\* a file of exactly maxFileSize bytes has been collected
C24_WitnessCollectedAtLimit ==
    /\ mode \in PF
    /\ last.outcome \in { "emitted", "registered" }
    /\ cfg.maxFileSize > 0
    /\ FileSize(tree, last.path) = cfg.maxFileSize

\* C25: a buffered run calls CountTokens not at all before the document is
\* serialized and exactly once from then on; when the run has returned nil
\* the text of that one call is the text of the document the destination
\* received, markup included, and Stats.tokens is the value the call
\* returned.
C25_TokensCountedOnceOverDocument ==
    mode = "buffered" =>
        /\ pc \in { "start", "walk", "serialize" } => tcCalls = 0
        /\ pc = "write" => tcCalls = 1 /\ tcLast.text = DocText(xmlBuffer)
        /\ (pc = "done" /\ result = "nil") =>
              /\ tcCalls = 1
              /\ tcLast.fn = "CountTokens"
              /\ tcLast.text = DocText(out)
              /\ stats.tokens = tcLast.val
              /\ stats.tokens = tcCount

\* a buffered run over two collected files has returned nil with a
\* positive token count
C25_WitnessCounted ==
    /\ mode = "buffered"
    /\ pc = "done"
    /\ result = "nil"
    /\ Cardinality(FileElems(out)) = 2
    /\ tcCalls = 1
    /\ stats.tokens > 0

RECURSIVE SizeSum(_)
\* the sum of the size attributes of the file elements of the document
SizeSum(doc) ==
    IF doc = <<>> THEN 0
    ELSE (IF Head(doc).kind = "file" THEN Head(doc).size ELSE 0) + SizeSum(Tail(doc))

\* Stats counts what the document holds
StatsMatchDocument ==
    /\ stats.filesProc = Cardinality(FileElems(out))
    /\ stats.bytesProc = SizeSum(out)

\* C28: when either version of processFiles has returned, Stats.filesProc
\* is the number of file elements of the output document and Stats.bytesProc
\* the sum of their size attributes, a record whose encoding failed being in
\* neither.
C28_StatsMatchDocument ==
    (mode \in PF /\ pc = "done") => StatsMatchDocument

\* C28, for the streaming processFiles, which counts a file after its
\* element was encoded.
C28_StreamStatsMatchDocument ==
    (mode = "stream" /\ pc = "done") => StatsMatchDocument
\* the destination of a buffered run between its steps: empty until the
\* run has ended, empty after a run that returned before the document was
\* built, the whole document after a run that returned nil
QuietDestination ==
    mode = "buffered" =>
        /\ pc # "done" => out = <<>>
        /\ result \notin {"none", "nil", "write_output"} => out = <<>>
        /\ result = "nil" =>
            /\ Len(out) >= 3
            /\ SubSeq(out, 1, 2) = DocStart
            /\ out[Len(out)] = Marker("close")
            /\ Cardinality(FileElems(out)) = Len(out) - 3
            /\ xmlBuffer = <<>>

\* a step of a buffered run that changes the destination is the call of
\* WriteTo that ends the run, made once, after the analysis and the token
\* count, and hands over the buffer from its first byte: all of it when
\* the run returns nil
FinalWrite ==
    (mode = "buffered" /\ out' # out) =>
        /\ pc = "write" /\ pc' = "done"
        /\ out = <<>>
        /\ daRuns = 1
        /\ tcCalls = 1 /\ stats.tokens = tcLast.val
        /\ out' \o xmlBuffer' = xmlBuffer
        /\ result' = "nil" => out' = xmlBuffer

\* C30: a buffered run writes nothing to the destination until the walk,
\* the dependency analysis, the serialization and the token count are
\* over; a run that returns before that leaves the destination empty, and
\* otherwise the destination gets the whole document in one final write.
C30_SingleFinalWrite == [](QuietDestination) /\ [][FinalWrite]_vars

C30_WitnessWrittenAtTheEnd ==
    /\ mode = "buffered"
    /\ pc = "done"
    /\ result = "nil"
    /\ stats.filesProc = 2
    /\ Cardinality(FileElems(out)) = 2
    /\ stats.tokens > 0

---------------------------------------------------------------------------
(* The specifications                                                      *)

GateInit ==
    /\ GateIdle
    /\ TokIdle
    /\ XmlIdle
    /\ DepIdle
    /\ RunIdle
    /\ MainIdle
    /\ HandleIdle

GateSpec == GateInit /\ [][GateNext]_vars

TokInit ==
    /\ TokIdle
    /\ GateIdle
    /\ XmlIdle
    /\ DepIdle
    /\ RunIdle
    /\ MainIdle
    /\ HandleIdle

TokSpec == TokInit /\ [][TokNext]_vars

XmlInit ==
    /\ XmlIdle
    /\ GateIdle
    /\ TokIdle
    /\ DepIdle
    /\ RunIdle
    /\ MainIdle
    /\ HandleIdle

XmlSpec == XmlInit /\ [][XmlNext]_vars

DepInit ==
    /\ DepNew
    /\ GateIdle
    /\ TokIdle
    /\ XmlIdle
    /\ RunIdle
    /\ MainIdle
    /\ HandleIdle

DepSpec == DepInit /\ [][DepNext]_vars

Init ==
    /\ RunStart
    /\ GateIdle
    /\ TokIdle
    /\ XmlIdle
    /\ DepIdle
    /\ MainIdle
    /\ HandleIdle

\* one run of any of the three pipelines
Spec == Init /\ [][Next]_vars

TwoRunInit ==
    /\ RunStart
    /\ mode = "buffered"
    /\ GateIdle
    /\ TokIdle
    /\ XmlIdle
    /\ DepIdle
    /\ MainIdle
    /\ HandleIdle

\* two runs of the buffered pipeline with the same Config over the same tree
TwoRunSpec == TwoRunInit /\ [][TwoRunNext]_vars

MainInit ==
    /\ RunStart
    /\ mode = "buffered"
    /\ MainStart
    /\ GateIdle
    /\ TokIdle
    /\ XmlIdle
    /\ DepIdle
    /\ HandleIdle

\* main over one run of the buffered pipeline
MainSpec == MainInit /\ [][MainNext]_vars

HandleInit ==
    /\ HandleStart
    /\ GateIdle
    /\ TokIdle
    /\ XmlIdle
    /\ DepIdle
    /\ RunIdle
    /\ MainIdle

\* the walk function of one of the three pipelines, called file after file
HandleSpec == HandleInit /\ [][HandleNext]_vars

====
